---- MODULE Spec2Model ----
(***************************************************************************)
(* Checkpointed workflow execution engine of nano-agent                     *)
(* (workflow_checkpoint_recovery.py, class WorkflowCheckpointRecovery).     *)
(*                                                                         *)
(* Engines are the WorkflowCheckpointRecovery objects of one process.  All  *)
(* of them are built with the default checkpoint_dir "./checkpoints", so    *)
(* they share the files step_<n>_state.json of that directory.              *)
(*                                                                         *)
(* Abstractions: wall-clock fields (timestamp, execution_time, duration)    *)
(* are left out; sha256(...)[:16] is modelled as a collision-free digest,   *)
(* i.e. by the canonical JSON text it is computed from; an executor         *)
(* failure is an exception raised where line 190 raises it, before the      *)
(* step touches artifacts or context.                                       *)
(*                                                                         *)
(* The second part models WorkflowComposer (workflow_state_manager.py), the *)
(* orchestrator that keeps WorkflowState objects and writes each one to     *)
(* CG_WORKFLOW_STATE_<workflow_id>.yaml.  Costs are counted in hundredths.  *)
(***************************************************************************)
EXTENDS Naturals, Sequences, FiniteSets

\* ------------------------------------------------------------------ bounds
\* One engine on a file system that works: steps per workflow,
\* execute_workflow calls, save/load calls made by a caller between runs.
MaxSteps == 3
MaxRuns == 1
MaxCalls == 2
\* One engine whose execute_workflow is called again and again.
RetryMaxRuns == 3
RetryMaxCalls == 1
\* Two engines on one checkpoint directory.
SharedMaxSteps == 3
SharedMaxRuns == 1
SharedMaxCalls == 1
\* One engine whose checkpoint writes can fail.
FaultMaxSteps == 2
FaultMaxRuns == 1
FaultMaxCalls == 1
MaxIoFaults == 1
\* One engine whose executors raise every kind of message.
MessageMaxSteps == 2
MessageMaxRuns == 1
\* Two engines on one checkpoint directory whose callers' save_checkpoint
\* calls can be overtaken by the other engine between open() and json.dump.
RaceMaxSteps == 2
RaceMaxRuns == 1
RaceMaxCalls == 2
\* One WorkflowComposer: execute_workflow calls, writes of the state file that
\* fail.
ComposerMaxRuns == 3
ComposerMaxFaults == 2
\* One WorkflowComposer with two workflows whose caller also calls
\* execute_step itself: calls of execute_workflow and execute_step, writes of
\* the state file that fail.
CallsMaxRuns == 2
CallsMaxFaults == 1

\* ------------------------------------------------------- program constants
max_retries == 3
checkpoint_interval == 1
auto_recovery == TRUE

Engines == {1, 2}
WorkflowIdOf(e) == IF e = 1 THEN "wf-A" ELSE "wf-B"

PENDING == "pending"
IN_PROGRESS == "in_progress"
COMPLETED == "completed"
FAILED == "failed"
RECOVERED == "recovered"

CHECKPOINT_RECOVERY == "checkpoint_recovery"
RETRY_WITH_FALLBACK == "retry_with_fallback"
COMPENSATING_ACTION == "compensating_action"

NoneStr == "None"

\* Messages an executor's exception can carry; the first is the one line 190
\* raises, the last two each name two patterns.  Mentions(msg, pat) is Python's
\* pat in msg .
ErrorMessages ==
    { "VALIDATION_ERROR: Input file contains invalid specification format",
      "TIMEOUT: agent did not answer",
      "DEPENDENCY: prerequisite artifact missing",
      "unexpected failure",
      "TIMEOUT while reporting VALIDATION_ERROR",
      "DEPENDENCY check ended in TIMEOUT" }

\* What a specification explores: the engines that act, and the bounds on
\* their inputs.
MainScope ==
    [engines |-> {1}, max_steps |-> MaxSteps, max_runs |-> MaxRuns,
     max_io_faults |-> 0, max_calls |-> MaxCalls,
     messages |-> { "VALIDATION_ERROR: Input file contains invalid specification format" }]

RetryScope ==
    [engines |-> {1}, max_steps |-> MaxSteps, max_runs |-> RetryMaxRuns,
     max_io_faults |-> 0, max_calls |-> RetryMaxCalls,
     messages |-> { "VALIDATION_ERROR: Input file contains invalid specification format" }]

SharedScope ==
    [engines |-> {1, 2}, max_steps |-> SharedMaxSteps, max_runs |-> SharedMaxRuns,
     max_io_faults |-> 0, max_calls |-> SharedMaxCalls,
     messages |-> { "VALIDATION_ERROR: Input file contains invalid specification format" }]

FaultScope ==
    [engines |-> {1}, max_steps |-> FaultMaxSteps, max_runs |-> FaultMaxRuns,
     max_io_faults |-> MaxIoFaults, max_calls |-> FaultMaxCalls,
     messages |-> { "TIMEOUT: agent did not answer" }]

MessageScope ==
    [engines |-> {1}, max_steps |-> MessageMaxSteps, max_runs |-> MessageMaxRuns,
     max_io_faults |-> 0, max_calls |-> 0,
     messages |-> ErrorMessages]

RaceScope ==
    [engines |-> {1, 2}, max_steps |-> RaceMaxSteps, max_runs |-> RaceMaxRuns,
     max_io_faults |-> 0, max_calls |-> RaceMaxCalls,
     messages |-> { "VALIDATION_ERROR: Input file contains invalid specification format" }]

ComposerScope ==
    [engines |-> {}, max_steps |-> 0, max_runs |-> 0, max_io_faults |-> 0,
     max_calls |-> 0, messages |-> {},
     workflows |-> {"cost_opt_1"}, composer_runs |-> ComposerMaxRuns,
     composer_faults |-> ComposerMaxFaults]

CallsScope ==
    [engines |-> {}, max_steps |-> 0, max_runs |-> 0, max_io_faults |-> 0,
     max_calls |-> 0, messages |-> {},
     workflows |-> {"cost_opt_1", "cost_opt_2"}, composer_runs |-> CallsMaxRuns,
     composer_faults |-> CallsMaxFaults]

Mentions(msg, pat) ==
    CASE pat = "VALIDATION_ERROR" ->
             msg \in { "VALIDATION_ERROR: Input file contains invalid specification format",
                       "TIMEOUT while reporting VALIDATION_ERROR" }
      [] pat = "TIMEOUT" ->
             msg \in { "TIMEOUT: agent did not answer",
                       "TIMEOUT while reporting VALIDATION_ERROR",
                       "DEPENDENCY check ended in TIMEOUT" }
      [] pat = "DEPENDENCY" ->
             msg \in { "DEPENDENCY: prerequisite artifact missing",
                       "DEPENDENCY check ended in TIMEOUT" }
      [] OTHER -> FALSE

\* ------------------------------------------------- the mocked step executors
StepOutput(n) ==
    CASE n = 1 -> "CG_TDD_42.md - CSV export specification"
      [] n = 2 -> "CG_TDD_TESTS_42.md - Test specifications"
      [] n = 3 -> "Implementation code - API routes and models"
      [] n = 4 -> "Security report - PASSED"
      [] n = 5 -> "Test results - ALL TESTS PASSING"
      [] n = 6 -> "Pull request PR #43 created"
      [] OTHER -> NoneStr

StepArtifact(n) ==
    CASE n = 1 -> "CG_TDD_42.md"
      [] n = 2 -> "CG_TDD_TESTS_42.md"
      [] n = 3 -> "implementation_code"
      [] n = 4 -> "security_report"
      [] n = 5 -> "test_results"
      [] n = 6 -> "pull_request"
      [] OTHER -> NoneStr

PyStr(s) == [ty |-> "str", v |-> s]
PyTrue == [ty |-> "bool", v |-> "True"]

\* The context entry a step writes: <<key, value>>.
StepContextEntry(n) ==
    CASE n = 1 -> <<"feature", PyStr("csv_export")>>
      [] n = 2 -> <<"tests_planned", PyTrue>>
      [] n = 3 -> <<"implementation_complete", PyTrue>>
      [] n = 4 -> <<"security_approved", PyTrue>>
      [] n = 5 -> <<"tests_passed", PyTrue>>
      [] n = 6 -> <<"pr_created", PyTrue>>
      [] OTHER -> <<NoneStr, PyStr(NoneStr)>>

\* d[k] = v on a dict kept as a set of <<key, value>> pairs.
DictSet(d, kv) == {p \in d : p[1] # kv[1]} \cup {kv}

\* ------------------------------------------------------------- json, digest
\* Position of an artifact name in Python's string order (sorted()).
ArtifactRank(a) ==
    CASE a = "CG_TDD_42.md" -> 1
      [] a = "CG_TDD_TESTS_42.md" -> 2
      [] a = "implementation_code" -> 3
      [] a = "pull_request" -> 4
      [] a = "security_report" -> 5
      [] a = "test_results" -> 6
      [] OTHER -> 7

RECURSIVE InsertSorted(_, _)
InsertSorted(a, s) ==
    IF s = <<>> THEN <<a>>
    ELSE IF ArtifactRank(a) <= ArtifactRank(Head(s)) THEN <<a>> \o s
    ELSE <<Head(s)>> \o InsertSorted(a, Tail(s))

RECURSIVE Sorted(_)
Sorted(s) == IF s = <<>> THEN <<>> ELSE InsertSorted(Head(s), Sorted(Tail(s)))

\* json.dump / json.load on the values a context holds: a str becomes a JSON
\* string, True becomes the literal true, and back.
JsonEncodeValue(v) ==
    IF v.ty = "bool"
    THEN [jt |-> "literal", text |-> IF v.v = "True" THEN "true" ELSE "false"]
    ELSE [jt |-> "string", text |-> v.v]

\* A decoder that reads every JSON value back as a str.
JsonDecodeValueAsStr(j) == [ty |-> "str", v |-> j.text]

JsonDecodeValue(j) ==
    IF j.jt = "literal"
    THEN [ty |-> "bool", v |-> IF j.text = "true" THEN "True" ELSE "False"]
    ELSE [ty |-> "str", v |-> j.text]

JsonEncodeDict(d) == {<<p[1], JsonEncodeValue(p[2])>> : p \in d}
JsonDecodeDict(j) == {<<p[1], JsonDecodeValue(p[2])>> : p \in j}

\* _calculate_integrity_hash over (workflow_id, context, artifacts).
HashOf(wid, ctx, arts) ==
    [workflow_id |-> wid, context |-> JsonEncodeDict(ctx), artifacts |-> Sorted(arts)]

\* json.dump(asdict(checkpoint_state)) and CheckpointState(**json.load(f)).
JsonDump(cs) ==
    [workflow_id |-> cs.workflow_id,
     step_number |-> cs.step_number,
     artifacts |-> cs.artifacts,
     context |-> JsonEncodeDict(cs.context),
     completed_steps |-> cs.completed_steps,
     integrity_hash |-> cs.integrity_hash]

JsonLoad(doc) ==
    [workflow_id |-> doc.workflow_id,
     step_number |-> doc.step_number,
     artifacts |-> doc.artifacts,
     context |-> JsonDecodeDict(doc.context),
     completed_steps |-> doc.completed_steps,
     integrity_hash |-> doc.integrity_hash]

\* A file of the checkpoint directory.
AbsentFile == [state |-> "absent", doc |-> <<>>]
PartialFile == [state |-> "partial", doc |-> <<>>]
JsonFile(doc) == [state |-> "json", doc |-> <<doc>>]

\* How a save_checkpoint call can end: written, open() raised (the file is
\* left as it was), or json.dump raised after open() truncated the file.
SaveOutcomes == {"ok", "open_failed", "write_failed"}

VARIABLES
    steps,               \* steps[e]: self.steps, a sequence of WorkflowStep
    context,             \* context[e]: self.context
    artifacts,           \* artifacts[e]: self.artifacts
    recovery_events,     \* recovery_events[e]: self.recovery_events
    checkpoint_files,    \* checkpoint_files[n]: checkpoint_dir/step_<n>_state.json
    pc,                  \* pc[e]: where execute_workflow of engine e stands
    cur,                 \* cur[e]: position of the for loop in self.steps
    result,              \* result[e]: how the last execute_workflow call ended
    runs,                \* runs[e]: number of execute_workflow calls so far
    last_checkpoint_step,\* local of recover_from_failure
    checkpoint,          \* local of recover_from_failure: <<>> None, <<cs>>
    checkpoint_bound,    \* whether that local has been assigned at all
    recovery_event,      \* local of recover_from_failure: <<>> or <<event>>
    dispatch_log,        \* history: the dispatches of the current run
    events_at_start,     \* history: Len(recovery_events) when the run began
    save_view,           \* history: what the last save_checkpoint saw
    round_trip,          \* history: a save_checkpoint(n), load_checkpoint(n) pair
                         \* (prior: the record the save found at the key)
    io_faults,           \* number of save_checkpoint calls the file system failed
    api_calls,           \* number of save/load calls made by callers between runs
    save_step,           \* save_step[e]: step_number of a save_checkpoint call
                         \* that has opened its file and not yet written it, or 0
    scope,               \* the bounds of the specification, fixed by Init
    current_workflows,   \* composer: workflow_id -> <<>> or <<WorkflowState>>
    state_files,         \* composer: workflow_id -> CG_WORKFLOW_STATE_<id>.yaml
    composer_pc,         \* composer: where the call under way stands (i: the
                         \* loop index, start: the index the loop began at)
    composer_result,     \* composer: how the last call of the caller ended
    composer_runs,       \* composer: number of execute_workflow and
                         \* execute_step calls of the caller so far
    composer_faults      \* composer: number of state file writes that failed

vars == <<steps, context, artifacts, recovery_events, checkpoint_files, pc, cur,
          result, runs, last_checkpoint_step, checkpoint, checkpoint_bound,
          recovery_event, dispatch_log, events_at_start, save_view, round_trip,
          io_faults, api_calls, save_step, scope, current_workflows, state_files,
          composer_pc, composer_result, composer_runs, composer_faults>>

composer == <<current_workflows, state_files, composer_pc, composer_result,
              composer_runs, composer_faults>>

budgets == <<io_faults, api_calls, scope>>

locals == <<last_checkpoint_step, checkpoint, checkpoint_bound, recovery_event>>

NoRoundTrip ==
    [stage |-> "none", e |-> 0, n |-> 0, saved |-> <<>>, got |-> <<>>, warned |-> FALSE,
     prior |-> <<>>]
NoSaveView == [e |-> 0, n |-> 0, completed_steps |-> <<>>, failed |-> {}]

\* The steps of demonstrate_error_recovery: name, agent and input_data (a str
\* or a list of str, kept as a sequence).
StepName(n) ==
    CASE n = 1 -> "Project Analysis"
      [] n = 2 -> "Test Planning"
      [] n = 3 -> "Implementation"
      [] n = 4 -> "Security Review"
      [] n = 5 -> "Test Execution"
      [] OTHER -> "PR Creation"

StepAgent(n) ==
    CASE n = 1 -> "claude-agent-issue-analyzer"
      [] n = 2 -> "claude-agent-test-planner"
      [] n = 3 -> "claude-agent-tdd-implementer"
      [] n = 4 -> "gemini-security-agent"
      [] n = 5 -> "claude-agent-test-runner"
      [] OTHER -> "claude-agent-git-assistant"

StepInput(n) ==
    CASE n = 1 -> <<"issue_42">>
      [] n = 2 -> <<"CG_TDD_42.md">>
      [] n = 3 -> <<"CG_TDD_42.md", "CG_TDD_TESTS_42.md">>
      [] n = 4 -> <<"implementation_code">>
      [] n = 5 -> <<"implementation_code", "CG_TDD_TESTS_42.md">>
      [] OTHER -> <<"implementation_code", "test_results">>

\* WorkflowStep(step_number, ...) as add_step receives it.
WorkflowStep(n) ==
    [step_number |-> n, name |-> StepName(n), agent |-> StepAgent(n),
     input_data |-> StepInput(n), status |-> PENDING, output |-> NoneStr,
     error_message |-> NoneStr, retry_count |-> 0, checkpoint_saved |-> FALSE]

WorkflowIds == {"cost_opt_1", "cost_opt_2"}

ComposerIdle == [at |-> "idle", w |-> NoneStr, i |-> 0, start |-> 0]

\* WorkflowComposer.__init__: no workflow yet; no state file on disk.
ComposerInit ==
    /\ current_workflows = [w \in WorkflowIds |-> <<>>]
    /\ state_files = [w \in WorkflowIds |-> AbsentFile]
    /\ composer_pc = ComposerIdle
    /\ composer_result = NoneStr
    /\ composer_runs = 0
    /\ composer_faults = 0

InitIn(sc) ==
    /\ scope = sc
    /\ ComposerInit
    /\ steps = [e \in Engines |-> <<>>]
    /\ context = [e \in Engines |-> {}]
    /\ artifacts = [e \in Engines |-> <<>>]
    /\ recovery_events = [e \in Engines |-> <<>>]
    /\ checkpoint_files = [n \in 1..MaxSteps |-> AbsentFile]
    /\ pc = [e \in Engines |-> "idle"]
    /\ cur = [e \in Engines |-> 0]
    /\ result = [e \in Engines |-> NoneStr]
    /\ runs = [e \in Engines |-> 0]
    /\ last_checkpoint_step = [e \in Engines |-> 0]
    /\ checkpoint = [e \in Engines |-> <<>>]
    /\ checkpoint_bound = [e \in Engines |-> FALSE]
    /\ recovery_event = [e \in Engines |-> <<>>]
    /\ dispatch_log = [e \in Engines |-> <<>>]
    /\ events_at_start = [e \in Engines |-> 0]
    /\ save_view = NoSaveView
    /\ round_trip = NoRoundTrip
    /\ io_faults = 0
    /\ api_calls = 0
    /\ save_step = [e \in Engines |-> 0]

Init == InitIn(MainScope)

\* ------------------------------------------------------ checkpoint store
Range(s) == {s[i] : i \in 1..Len(s)}

StepNumbers(ss) == [i \in 1..Len(ss) |-> ss[i].step_number]

\* A filter that records every step that has been dispatched and ended.
CompletedStepsAnyEnded(ss) ==
    StepNumbers(SelectSeq(ss, LAMBDA s : s.status \in {COMPLETED, FAILED, RECOVERED}))

\* save_checkpoint, line 98: the step numbers whose status is COMPLETED.
CompletedSteps(ss) ==
    StepNumbers(SelectSeq(ss, LAMBDA s : s.status = COMPLETED))

\* The CheckpointState save_checkpoint(n) builds from the engine's state.
CheckpointState(wid, n, ss, ctx, arts) ==
    [workflow_id |-> wid,
     step_number |-> n,
     artifacts |-> arts,
     context |-> ctx,
     completed_steps |-> CompletedSteps(ss),
     integrity_hash |-> HashOf(wid, ctx, arts)]

\* A path that names the file of the step after n.
CheckpointPathOfNext(wid, n) == IF n < MaxSteps THEN n + 1 ELSE n

\* The file checkpoint_dir/step_<n>_state.json names; workflow_id is no part
\* of the name.
CheckpointPath(wid, n) == n

\* A store that keeps the first record written at a key.
SavedFileKeepsFirst(old, cs, outcome) ==
    CASE outcome = "ok" -> IF old.state = "json" THEN old ELSE JsonFile(JsonDump(cs))
      [] outcome = "open_failed" -> old
      [] OTHER -> PartialFile

\* The file after save_checkpoint, and what save_checkpoint returns.
SavedFile(old, cs, outcome) ==
    CASE outcome = "ok" -> JsonFile(JsonDump(cs))
      [] outcome = "open_failed" -> old
      [] OTHER -> PartialFile

SaveReturns(outcome) == outcome = "ok"

\* load_checkpoint: None for a missing file and for one json.load rejects.
LoadCheckpoint(file) ==
    IF file.state = "json" THEN <<JsonLoad(file.doc[1])>> ELSE <<>>

\* load_checkpoint, lines 137-139: the warning is printed when the hash of
\* the engine's state at the time of the load differs from the stored one.
IntegrityWarning(wid, ctx, arts, ck) ==
    ck # <<>> /\ HashOf(wid, ctx, arts) # ck[1].integrity_hash

\* The file system fails a bounded number of saves.
MayEnd(outcome) == outcome = "ok" \/ io_faults < scope.max_io_faults
FaultsAfter(outcome) == IF outcome = "ok" THEN io_faults ELSE io_faults + 1

\* What save_checkpoint saw when it wrote a record (history only).
SaveView(e, cs, ss, outcome) ==
    IF outcome = "ok"
    THEN [e |-> e, n |-> cs.step_number, completed_steps |-> cs.completed_steps,
          failed |-> {ss[i].step_number : i \in {j \in 1..Len(ss) : ss[j].status = FAILED}}]
    ELSE save_view

\* ------------------------------------------------------------- step effects
\* A restore that hands the steps after the checkpoint the checkpoint's
\* artifacts as their input.
RestoredStepsWithNewInput(ss, cs) ==
    [i \in 1..Len(ss) |->
        IF ss[i].step_number \in Range(cs.completed_steps)
        THEN [ss[i] EXCEPT !.status = COMPLETED]
        ELSE IF ss[i].step_number > cs.step_number
             THEN [ss[i] EXCEPT !.status = PENDING, !.input_data = cs.artifacts]
             ELSE ss[i]]

\* restore_from_checkpoint, lines 165-169.
RestoredSteps(ss, cs) ==
    [i \in 1..Len(ss) |->
        IF ss[i].step_number \in Range(cs.completed_steps)
        THEN [ss[i] EXCEPT !.status = COMPLETED]
        ELSE IF ss[i].step_number > cs.step_number
             THEN [ss[i] EXCEPT !.status = PENDING]
             ELSE ss[i]]

\* A classifier that looks for the timeout pattern first.
CompensatingActionsTimeoutFirst(msg) ==
    IF Mentions(msg, "TIMEOUT")
    THEN <<"switch_to_fallback_agent", "reduce_complexity">>
    ELSE IF Mentions(msg, "VALIDATION_ERROR")
    THEN <<"input_format_validation", "specification_format_correction">>
    ELSE IF Mentions(msg, "DEPENDENCY")
    THEN <<"regenerate_dependencies", "validate_prerequisites">>
    ELSE <<>>

\* A classifier that plans actions only while the engine at work has no
\* recovery on record.
CompensatingActionsFirstRecoveryOnly(msg) ==
    IF \A e \in Engines : pc[e] = "restore" => recovery_events[e] = <<>>
    THEN IF Mentions(msg, "VALIDATION_ERROR")
         THEN <<"input_format_validation", "specification_format_correction">>
         ELSE IF Mentions(msg, "TIMEOUT")
         THEN <<"switch_to_fallback_agent", "reduce_complexity">>
         ELSE IF Mentions(msg, "DEPENDENCY")
         THEN <<"regenerate_dependencies", "validate_prerequisites">>
         ELSE <<>>
    ELSE <<>>

\* _apply_compensating_actions.
CompensatingActions(msg) ==
    IF Mentions(msg, "VALIDATION_ERROR")
    THEN <<"input_format_validation", "specification_format_correction">>
    ELSE IF Mentions(msg, "TIMEOUT")
    THEN <<"switch_to_fallback_agent", "reduce_complexity">>
    ELSE IF Mentions(msg, "DEPENDENCY")
    THEN <<"regenerate_dependencies", "validate_prerequisites">>
    ELSE <<>>

\* self.artifacts.append(a) / self.context[k] = v of the mocked executors.
ArtifactsAfter(arts, n) ==
    IF StepArtifact(n) = NoneStr THEN arts ELSE Append(arts, StepArtifact(n))

ContextAfter(ctx, n) ==
    IF StepArtifact(n) = NoneStr THEN ctx ELSE DictSet(ctx, StepContextEntry(n))

\* A RecoveryEvent whose artifacts_recovered is the list object self.artifacts
\* (lines 162 and 280 bind both to checkpoint.artifacts) sees every append.
EventAfterAppend(ev, n) ==
    IF ev.shares_artifacts
    THEN [ev EXCEPT !.artifacts_recovered = ArtifactsAfter(@, n)]
    ELSE ev

EventsAfterAppend(evs, n) == [i \in 1..Len(evs) |-> EventAfterAppend(evs[i], n)]

\* A step that counts as failed when its checkpoint could not be written.
StepCompletedOnlyIfSaved(s, saved) ==
    [s EXCEPT !.status = IF saved THEN COMPLETED ELSE FAILED,
              !.output = IF StepOutput(s.step_number) = NoneStr THEN @
                         ELSE StepOutput(s.step_number),
              !.checkpoint_saved = saved]

\* A step that is marked Recovered whenever its executor succeeds.
StepCompletedAsRecovered(s, saved) ==
    [s EXCEPT !.status = RECOVERED,
              !.output = IF StepOutput(s.step_number) = NoneStr THEN @
                         ELSE StepOutput(s.step_number),
              !.checkpoint_saved = saved]

\* execute_step, lines 196-232: the step after a successful execution.
StepCompleted(s, saved) ==
    [s EXCEPT !.status = COMPLETED,
              !.output = IF StepOutput(s.step_number) = NoneStr THEN @
                         ELSE StepOutput(s.step_number),
              !.checkpoint_saved = IF s.step_number % checkpoint_interval = 0
                                   THEN saved ELSE @]

\* execute_step, lines 237-245: the step after its executor raised.
StepFailed(s, msg) ==
    [s EXCEPT !.status = FAILED, !.error_message = msg, !.retry_count = @ + 1]

\* execute_workflow, line 349.
MayRecover(s) == s.retry_count <= max_retries

NoLocals(e) ==
    /\ last_checkpoint_step' = [last_checkpoint_step EXCEPT ![e] = 0]
    /\ checkpoint' = [checkpoint EXCEPT ![e] = <<>>]
    /\ checkpoint_bound' = [checkpoint_bound EXCEPT ![e] = FALSE]
    /\ recovery_event' = [recovery_event EXCEPT ![e] = <<>>]

\* ---------------------------------------------------------------- actions
\* add_step, with the step numbers 1, 2, ... of the demonstration, before the
\* first run.
AddStep(e) ==
    /\ e \in scope.engines
    /\ pc[e] = "idle"
    /\ runs[e] = 0
    /\ Len(steps[e]) < scope.max_steps
    /\ steps' = [steps EXCEPT ![e] = Append(@, WorkflowStep(Len(@) + 1))]
    /\ round_trip' = NoRoundTrip
    /\ UNCHANGED <<composer, save_step, budgets, context, artifacts, recovery_events, checkpoint_files, pc, cur,
                   result, runs, locals, dispatch_log, events_at_start, save_view>>

\* execute_workflow is called.
StartWorkflow(e) ==
    /\ e \in scope.engines
    /\ pc[e] = "idle"
    /\ runs[e] < scope.max_runs
    /\ pc' = [pc EXCEPT ![e] = "loop"]
    /\ cur' = [cur EXCEPT ![e] = 1]
    /\ result' = [result EXCEPT ![e] = "running"]
    /\ runs' = [runs EXCEPT ![e] = @ + 1]
    /\ dispatch_log' = [dispatch_log EXCEPT ![e] = <<>>]
    /\ events_at_start' = [events_at_start EXCEPT ![e] = Len(recovery_events[e])]
    /\ round_trip' = NoRoundTrip
    /\ UNCHANGED <<composer, save_step, budgets, steps, context, artifacts, recovery_events, checkpoint_files,
                   locals, save_view>>

\* execute_workflow: the for loop is exhausted, the call returns True.
EndWorkflow(e) ==
    /\ pc[e] = "loop"
    /\ cur[e] > Len(steps[e])
    /\ pc' = [pc EXCEPT ![e] = "idle"]
    /\ result' = [result EXCEPT ![e] = "True"]
    /\ round_trip' = NoRoundTrip
    /\ UNCHANGED <<composer, save_step, budgets, steps, context, artifacts, recovery_events, checkpoint_files, cur,
                   runs, locals, dispatch_log, events_at_start, save_view>>

\* execute_step, lines 183-185: the step is dispatched, from the for loop or
\* from recover_from_failure (line 294).
BeginStep(e) ==
    /\ pc[e] \in {"loop", "retry"}
    /\ cur[e] <= Len(steps[e])
    /\ steps' = [steps EXCEPT ![e][cur[e]].status = IN_PROGRESS]
    /\ pc' = [pc EXCEPT ![e] = IF pc[e] = "loop" THEN "exec" ELSE "retry_exec"]
    /\ round_trip' = NoRoundTrip
    /\ UNCHANGED <<composer, save_step, budgets, context, artifacts, recovery_events, checkpoint_files, cur, result,
                   runs, locals, dispatch_log, events_at_start, save_view>>

\* The first dispatch of a step succeeds: execute_step lines 196-235, then
\* execute_workflow goes on with the next step.
StepSucceeds(e, outcome) ==
    LET s == steps[e][cur[e]]
        n == s.step_number
        done == [steps[e] EXCEPT ![cur[e]] = StepCompleted(s, SaveReturns(outcome))]
        atSave == [steps[e] EXCEPT ![cur[e]].status = COMPLETED]
        arts == ArtifactsAfter(artifacts[e], n)
        ctx == ContextAfter(context[e], n)
        cs == CheckpointState(WorkflowIdOf(e), n, atSave, ctx, arts)
        path == CheckpointPath(WorkflowIdOf(e), n)
    IN /\ pc[e] = "exec"
       /\ MayEnd(outcome)
       /\ io_faults' = FaultsAfter(outcome)
       /\ steps' = [steps EXCEPT ![e] = done]
       /\ artifacts' = [artifacts EXCEPT ![e] = arts]
       /\ context' = [context EXCEPT ![e] = ctx]
       /\ recovery_events' = [recovery_events EXCEPT ![e] = EventsAfterAppend(@, n)]
       /\ checkpoint_files' =
              [checkpoint_files EXCEPT ![path] = SavedFile(@, cs, outcome)]
       /\ save_view' = SaveView(e, cs, atSave, outcome)
       /\ dispatch_log' = [dispatch_log EXCEPT ![e] =
              Append(@, [step |-> n, ok |-> TRUE, msg |-> NoneStr])]
       /\ cur' = [cur EXCEPT ![e] = @ + 1]
       /\ pc' = [pc EXCEPT ![e] = "loop"]
       /\ round_trip' = NoRoundTrip
       /\ UNCHANGED <<composer, save_step, result, runs, locals, events_at_start, api_calls, scope>>

\* The first dispatch of a step fails: execute_step lines 237-245, then
\* execute_workflow lines 348-360.
StepFails(e, msg) ==
    LET s == StepFailed(steps[e][cur[e]], msg)
        recover == auto_recovery /\ MayRecover(s)
    IN /\ pc[e] = "exec"
       /\ msg \in scope.messages
       /\ steps' = [steps EXCEPT ![e][cur[e]] = s]
       /\ dispatch_log' = [dispatch_log EXCEPT ![e] =
              Append(@, [step |-> s.step_number, ok |-> FALSE, msg |-> msg])]
       /\ pc' = [pc EXCEPT ![e] = IF recover THEN "recover" ELSE "idle"]
       /\ result' = [result EXCEPT ![e] = IF recover THEN @ ELSE "False"]
       /\ last_checkpoint_step' =
              [last_checkpoint_step EXCEPT ![e] = IF recover THEN s.step_number - 1 ELSE 0]
       /\ round_trip' = NoRoundTrip
       /\ UNCHANGED <<composer, save_step, budgets, context, artifacts, recovery_events, checkpoint_files, cur, runs,
                      checkpoint, checkpoint_bound, recovery_event, events_at_start,
                      save_view>>

\* recover_from_failure, lines 253-257: one turn of the while loop.
RecoverLoadStrict(e) ==
    LET n == last_checkpoint_step[e]
        got == LoadCheckpoint(checkpoint_files[CheckpointPath(WorkflowIdOf(e), n)])
        ck == IF IntegrityWarning(WorkflowIdOf(e), context[e], artifacts[e], got)
              THEN <<>> ELSE got
    IN /\ pc[e] = "recover"
       /\ n > 0
       /\ checkpoint' = [checkpoint EXCEPT ![e] = ck]
       /\ checkpoint_bound' = [checkpoint_bound EXCEPT ![e] = TRUE]
       /\ last_checkpoint_step' =
              [last_checkpoint_step EXCEPT ![e] = IF ck = <<>> THEN n - 1 ELSE n]
       /\ pc' = [pc EXCEPT ![e] = IF ck = <<>> THEN "recover" ELSE "restore"]
       /\ round_trip' = NoRoundTrip
       /\ UNCHANGED <<composer, save_step, budgets, steps, context, artifacts, recovery_events, checkpoint_files, cur,
                      result, runs, recovery_event, dispatch_log, events_at_start,
                      save_view>>

RecoverLoad(e) ==
    LET n == last_checkpoint_step[e]
        ck == LoadCheckpoint(checkpoint_files[CheckpointPath(WorkflowIdOf(e), n)])
    IN /\ pc[e] = "recover"
       /\ n > 0
       /\ checkpoint' = [checkpoint EXCEPT ![e] = ck]
       /\ checkpoint_bound' = [checkpoint_bound EXCEPT ![e] = TRUE]
       /\ last_checkpoint_step' =
              [last_checkpoint_step EXCEPT ![e] = IF ck = <<>> THEN n - 1 ELSE n]
       /\ pc' = [pc EXCEPT ![e] = IF ck = <<>> THEN "recover" ELSE "restore"]
       /\ round_trip' = NoRoundTrip
       /\ UNCHANGED <<composer, save_step, budgets, steps, context, artifacts, recovery_events, checkpoint_files, cur,
                      result, runs, recovery_event, dispatch_log, events_at_start,
                      save_view>>

\* recover_from_failure, lines 259-261, reached with the while loop over and
\* no checkpoint loaded: "if not checkpoint" returns False when the loop
\* assigned None, and raises UnboundLocalError when the loop never ran; then
\* execute_workflow returns False (line 353) or the exception leaves it.
RecoverGiveUp(e) ==
    /\ pc[e] = "recover"
    /\ last_checkpoint_step[e] = 0
    /\ result' = [result EXCEPT ![e] =
           IF checkpoint_bound[e] THEN "False" ELSE "UnboundLocalError"]
    /\ pc' = [pc EXCEPT ![e] = "idle"]
    /\ NoLocals(e)
    /\ round_trip' = NoRoundTrip
    /\ UNCHANGED <<composer, save_step, budgets, steps, context, artifacts, recovery_events, checkpoint_files, cur,
                   runs, dispatch_log, events_at_start, save_view>>

\* An event that names the failed step as the source of the restore.
NewRecoveryEventOffByOne(evs, failed, source, cs) ==
    [event_id |-> Len(evs) + 1,
     trigger |-> [msg |-> failed.error_message, step |-> failed.step_number],
     strategy |-> CHECKPOINT_RECOVERY,
     source_checkpoint |-> source + 1,
     success |-> FALSE,
     artifacts_recovered |-> cs.artifacts,
     compensating_actions |-> CompensatingActions(failed.error_message),
     shares_artifacts |-> TRUE]

\* The RecoveryEvent of lines 264-274, with artifacts_recovered and
\* compensating_actions as lines 280-284 set them.
NewRecoveryEvent(evs, failed, source, cs) ==
    [event_id |-> Len(evs) + 1,
     trigger |-> [msg |-> failed.error_message, step |-> failed.step_number],
     strategy |-> CHECKPOINT_RECOVERY,
     source_checkpoint |-> source,
     success |-> FALSE,
     artifacts_recovered |-> cs.artifacts,
     compensating_actions |-> CompensatingActions(failed.error_message),
     shares_artifacts |-> TRUE]

\* An event that is always recorded as a success.
FinalizedEventAlwaysSuccess(ev, success) == [ev EXCEPT !.success = TRUE]

\* recover_from_failure, lines 296-305: the event as it is appended, once
\* the retried execute_step has returned success.
FinalizedEvent(ev, success) == IF success THEN [ev EXCEPT !.success = TRUE] ELSE ev

\* Line 162 rebinds self.artifacts: the events recorded so far keep the old
\* list object.
Unshared(evs) == [i \in 1..Len(evs) |-> [evs[i] EXCEPT !.shares_artifacts = FALSE]]

\* recover_from_failure, lines 264-291: the event is created, the checkpoint
\* restored, the compensating actions chosen and the failed step reset.
RecoverRestore(e) ==
    LET cs == checkpoint[e][1]
        failed == steps[e][cur[e]]
        restored == RestoredSteps(steps[e], cs)
    IN /\ pc[e] = "restore"
       /\ recovery_event' = [recovery_event EXCEPT ![e] =
              <<NewRecoveryEvent(recovery_events[e], failed, last_checkpoint_step[e], cs)>>]
       /\ context' = [context EXCEPT ![e] = cs.context]
       /\ artifacts' = [artifacts EXCEPT ![e] = cs.artifacts]
       /\ recovery_events' = [recovery_events EXCEPT ![e] = Unshared(@)]
       /\ steps' = [steps EXCEPT ![e] =
              [restored EXCEPT ![cur[e]].status = PENDING,
                               ![cur[e]].error_message = NoneStr]]
       /\ pc' = [pc EXCEPT ![e] = "retry"]
       /\ round_trip' = NoRoundTrip
       /\ UNCHANGED <<composer, save_step, budgets, checkpoint_files, cur, result, runs, last_checkpoint_step,
                      checkpoint, checkpoint_bound, dispatch_log, events_at_start,
                      save_view>>

\* The retried dispatch succeeds: execute_step lines 196-235, then
\* recover_from_failure lines 296-307 and execute_workflow's next step.
RetrySucceeds(e, outcome) ==
    LET s == steps[e][cur[e]]
        n == s.step_number
        done == StepCompleted(s, SaveReturns(outcome))
        atSave == [steps[e] EXCEPT ![cur[e]].status = COMPLETED]
        arts == ArtifactsAfter(artifacts[e], n)
        ctx == ContextAfter(context[e], n)
        cs == CheckpointState(WorkflowIdOf(e), n, atSave, ctx, arts)
        path == CheckpointPath(WorkflowIdOf(e), n)
        ev == FinalizedEvent(EventAfterAppend(recovery_event[e][1], n), TRUE)
    IN /\ pc[e] = "retry_exec"
       /\ MayEnd(outcome)
       /\ io_faults' = FaultsAfter(outcome)
       /\ steps' = [steps EXCEPT ![e][cur[e]] = [done EXCEPT !.status = RECOVERED]]
       /\ artifacts' = [artifacts EXCEPT ![e] = arts]
       /\ context' = [context EXCEPT ![e] = ctx]
       /\ recovery_events' = [recovery_events EXCEPT ![e] =
              Append(EventsAfterAppend(@, n), ev)]
       /\ checkpoint_files' =
              [checkpoint_files EXCEPT ![path] = SavedFile(@, cs, outcome)]
       /\ save_view' = SaveView(e, cs, atSave, outcome)
       /\ dispatch_log' = [dispatch_log EXCEPT ![e] =
              Append(@, [step |-> n, ok |-> TRUE, msg |-> NoneStr])]
       /\ cur' = [cur EXCEPT ![e] = @ + 1]
       /\ pc' = [pc EXCEPT ![e] = "loop"]
       /\ NoLocals(e)
       /\ round_trip' = NoRoundTrip
       /\ UNCHANGED <<composer, save_step, result, runs, events_at_start, api_calls, scope>>

\* The retried dispatch fails: execute_step lines 237-245, then
\* recover_from_failure lines 300-307 and execute_workflow line 353.
RetryFails(e, msg) ==
    LET s == StepFailed(steps[e][cur[e]], msg)
    IN /\ pc[e] = "retry_exec"
       /\ msg \in scope.messages
       /\ steps' = [steps EXCEPT ![e][cur[e]] = s]
       /\ recovery_events' = [recovery_events EXCEPT ![e] =
              Append(@, FinalizedEvent(recovery_event[e][1], FALSE))]
       /\ dispatch_log' = [dispatch_log EXCEPT ![e] =
              Append(@, [step |-> s.step_number, ok |-> FALSE, msg |-> msg])]
       /\ result' = [result EXCEPT ![e] = "False"]
       /\ pc' = [pc EXCEPT ![e] = "idle"]
       /\ NoLocals(e)
       /\ round_trip' = NoRoundTrip
       /\ UNCHANGED <<composer, save_step, budgets, context, artifacts, checkpoint_files, cur, runs, events_at_start,
                      save_view>>

\* A caller invokes save_checkpoint(n) between runs.
CallSaveCheckpoint(e, n, outcome) ==
    LET cs == CheckpointState(WorkflowIdOf(e), n, steps[e], context[e], artifacts[e])
        path == CheckpointPath(WorkflowIdOf(e), n)
    IN /\ e \in scope.engines
       /\ pc[e] = "idle"
       /\ n <= scope.max_steps
       /\ api_calls < scope.max_calls
       /\ api_calls' = api_calls + 1
       /\ MayEnd(outcome)
       /\ io_faults' = FaultsAfter(outcome)
       /\ checkpoint_files' =
              [checkpoint_files EXCEPT ![path] = SavedFile(@, cs, outcome)]
       /\ save_view' = SaveView(e, cs, steps[e], outcome)
       /\ round_trip' =
              IF SaveReturns(outcome)
              THEN [stage |-> "saved", e |-> e, n |-> n,
                    saved |-> <<[workflow_id |-> WorkflowIdOf(e),
                                 step_number |-> n,
                                 context |-> context[e],
                                 artifacts |-> artifacts[e],
                                 completed_steps |->
                                     StepNumbers(SelectSeq(steps[e],
                                         LAMBDA st : st.status = COMPLETED))]>>,
                    got |-> <<>>, warned |-> FALSE,
                    prior |-> checkpoint_files[path].doc]
              ELSE NoRoundTrip
       /\ UNCHANGED <<composer, save_step, steps, context, artifacts, recovery_events, pc, cur, result,
                      runs, locals, dispatch_log, events_at_start, scope>>

\* A load_checkpoint that also applies the record it read to the engine.
CallLoadCheckpointRestoring(e, n) ==
    LET ck == LoadCheckpoint(checkpoint_files[CheckpointPath(WorkflowIdOf(e), n)])
    IN /\ e \in scope.engines
       /\ pc[e] = "idle"
       /\ n <= scope.max_steps
       /\ api_calls < scope.max_calls
       /\ api_calls' = api_calls + 1
       /\ round_trip' = [NoRoundTrip EXCEPT !.stage = "load", !.e = e, !.n = n, !.got = ck]
       /\ context' = IF ck = <<>> THEN context ELSE [context EXCEPT ![e] = ck[1].context]
       /\ artifacts' = IF ck = <<>> THEN artifacts
                       ELSE [artifacts EXCEPT ![e] = ck[1].artifacts]
       /\ UNCHANGED <<composer, save_step, steps, recovery_events, checkpoint_files, pc,
                      cur, result, runs, locals, dispatch_log, events_at_start,
                      save_view, io_faults, scope>>

\* A caller invokes load_checkpoint(n) between runs.
CallLoadCheckpoint(e, n) ==
    LET ck == LoadCheckpoint(checkpoint_files[CheckpointPath(WorkflowIdOf(e), n)])
        warned == IntegrityWarning(WorkflowIdOf(e), context[e], artifacts[e], ck)
    IN /\ e \in scope.engines
       /\ pc[e] = "idle"
       /\ n <= scope.max_steps
       /\ api_calls < scope.max_calls
       /\ api_calls' = api_calls + 1
       /\ round_trip' =
              IF round_trip.stage = "saved" /\ round_trip.e = e /\ round_trip.n = n
              THEN [round_trip EXCEPT !.stage = "loaded", !.got = ck, !.warned = warned]
              ELSE [NoRoundTrip EXCEPT !.stage = "load", !.e = e, !.n = n, !.got = ck,
                                       !.warned = warned]
       /\ UNCHANGED <<composer, save_step, steps, context, artifacts, recovery_events, checkpoint_files, pc,
                      cur, result, runs, locals, dispatch_log, events_at_start,
                      save_view, io_faults, scope>>

EngineNext(e) ==
    \/ AddStep(e)
    \/ StartWorkflow(e)
    \/ EndWorkflow(e)
    \/ BeginStep(e)
    \/ \E outcome \in SaveOutcomes : StepSucceeds(e, outcome)
    \/ \E msg \in ErrorMessages : StepFails(e, msg)
    \/ RecoverLoad(e)
    \/ RecoverGiveUp(e)
    \/ RecoverRestore(e)
    \/ \E outcome \in SaveOutcomes : RetrySucceeds(e, outcome)
    \/ \E msg \in ErrorMessages : RetryFails(e, msg)
    \/ \E n \in 1..MaxSteps, outcome \in SaveOutcomes : CallSaveCheckpoint(e, n, outcome)
    \/ \E n \in 1..MaxSteps : CallLoadCheckpoint(e, n)

Next == \E e \in Engines : EngineNext(e)

\* One engine working alone on its checkpoint directory, every write of
\* which succeeds.
Spec == Init /\ [][Next]_vars

\* One engine whose execute_workflow is called up to RetryMaxRuns times.
InitRetry == InitIn(RetryScope)
SpecRetry == InitRetry /\ [][Next]_vars

\* Two engines with different workflow ids on the default checkpoint_dir.
InitShared == InitIn(SharedScope)
SpecShared == InitShared /\ [][Next]_vars

\* One engine whose checkpoint writes can fail.
InitFaults == InitIn(FaultScope)
SpecFaults == InitFaults /\ [][Next]_vars

\* execute_workflow and what it calls, without a caller saving or loading
\* checkpoints in between.
WorkflowNext ==
    \E e \in Engines :
        \/ AddStep(e)
        \/ StartWorkflow(e)
        \/ EndWorkflow(e)
        \/ BeginStep(e)
        \/ \E outcome \in SaveOutcomes : StepSucceeds(e, outcome)
        \/ \E msg \in ErrorMessages : StepFails(e, msg)
        \/ RecoverLoad(e)
        \/ RecoverGiveUp(e)
        \/ RecoverRestore(e)
        \/ \E outcome \in SaveOutcomes : RetrySucceeds(e, outcome)
        \/ \E msg \in ErrorMessages : RetryFails(e, msg)

\* One engine whose executors raise every kind of message.
InitMessages == InitIn(MessageScope)
SpecMessages == InitMessages /\ [][WorkflowNext]_vars

\* save_checkpoint called by a caller while other engines run, lines 98-112:
\* the CheckpointState is built and open(checkpoint_path, 'w') has truncated
\* the file; json.dump has not written yet.
OpenCheckpointFile(e, n) ==
    LET path == CheckpointPath(WorkflowIdOf(e), n)
    IN /\ e \in scope.engines
       /\ pc[e] = "idle"
       /\ n <= scope.max_steps
       /\ api_calls < scope.max_calls
       /\ api_calls' = api_calls + 1
       /\ save_step' = [save_step EXCEPT ![e] = n]
       /\ pc' = [pc EXCEPT ![e] = "saving"]
       /\ checkpoint_files' = [checkpoint_files EXCEPT ![path] = PartialFile]
       /\ round_trip' = NoRoundTrip
       /\ UNCHANGED <<composer, steps, context, artifacts, recovery_events, cur, result,
                      runs, locals, dispatch_log, events_at_start, save_view,
                      io_faults, scope>>

\* save_checkpoint, lines 113-116: json.dump writes the record, the file is
\* closed and the call returns True.
DumpCheckpoint(e) ==
    LET n == save_step[e]
        cs == CheckpointState(WorkflowIdOf(e), n, steps[e], context[e], artifacts[e])
        path == CheckpointPath(WorkflowIdOf(e), n)
    IN /\ pc[e] = "saving"
       /\ save_step' = [save_step EXCEPT ![e] = 0]
       /\ pc' = [pc EXCEPT ![e] = "idle"]
       /\ checkpoint_files' = [checkpoint_files EXCEPT ![path] = JsonFile(JsonDump(cs))]
       /\ save_view' = SaveView(e, cs, steps[e], "ok")
       /\ round_trip' = NoRoundTrip
       /\ UNCHANGED <<composer, steps, context, artifacts, recovery_events, cur, result,
                      runs, locals, dispatch_log, events_at_start, budgets>>

RaceNext ==
    \E e \in Engines :
        \/ EngineNext(e)
        \/ \E n \in 1..MaxSteps : OpenCheckpointFile(e, n)
        \/ DumpCheckpoint(e)

\* Two engines on the default checkpoint_dir, with saves that other engines
\* can overtake.
InitRace == InitIn(RaceScope)
SpecRace == InitRace /\ [][RaceNext]_vars

\* ------------------------------------------------------- WorkflowComposer
\* WorkflowStatus has the values of StepStatus for PENDING, COMPLETED and
\* FAILED; RUNNING and PAUSED are its own.
RUNNING == "running"
PAUSED == "paused"

\* The message of the exception a failed write of the state file raises.
WriteError == "OSError: state file could not be written"

\* create_cost_optimization_workflow: the agent type of each of its steps.
AgentTypes ==
    << "nano-agent-factory", "nano-agent-gpt5-mini", "nano-agent-gemini",
       "nano-agent-gpt5-mini", "nano-agent-claude-opus", "nano-agent-gpt5-mini" >>

StepIds ==
    << "record_generation", "complexity_analysis", "simple_processing",
       "medium_processing", "complex_processing", "cost_analysis" >>

\* simulate_agent_execution: cost (in hundredths), tokens and kind of result.
AgentCost(agent) ==
    CASE agent = "nano-agent-gemini" -> 1
      [] agent = "nano-agent-gpt5-mini" -> 5
      [] agent = "nano-agent-claude-opus" -> 25
      [] OTHER -> 2

AgentTokens(agent) ==
    CASE agent = "nano-agent-gemini" -> 500
      [] agent = "nano-agent-gpt5-mini" -> 1500
      [] agent = "nano-agent-claude-opus" -> 3000
      [] OTHER -> 800

AgentOutput(agent) ==
    IF agent \in {"nano-agent-gemini", "nano-agent-gpt5-mini", "nano-agent-claude-opus"}
    THEN "processed_records" ELSE "agent_created"

\* create_cost_optimization_workflow: the input_data of each of its steps.
StepInputs ==
    << [task |-> "generate_test_records", count |-> 1000],
       [task |-> "analyze_record_complexity", batch_size |-> 100],
       [task |-> "process_simple_records", expected_count |-> 700],
       [task |-> "process_medium_records", expected_count |-> 250],
       [task |-> "process_complex_records", expected_count |-> 50],
       [task |-> "calculate_cost_savings", baseline |-> "claude_opus_only"] >>

\* create_cost_optimization_workflow: the context (shares in hundredths).
WorkflowContext ==
    [target_records |-> 1000,
     distribution |-> [simple |-> 70, medium |-> 25, complex |-> 5],
     max_concurrent |-> 50,
     cost_baseline |-> "claude_opus_only"]

WorkflowName == "Cost Optimization Multi-Model Routing"

\* WorkflowStep(step_id, agent_type, input_data) with its defaults.
ComposerStep(i) ==
    [step_id |-> StepIds[i], agent_type |-> AgentTypes[i],
     input_data |-> StepInputs[i], status |-> PENDING,
     output_data |-> NoneStr, cost |-> 0, tokens_used |-> 0,
     error_message |-> NoneStr]

\* The WorkflowState create_cost_optimization_workflow builds.
NewWorkflow(w) ==
    [workflow_id |-> w, workflow_name |-> WorkflowName,
     status |-> PENDING, current_step |-> 0,
     total_steps |-> Len(StepIds),
     steps |-> [i \in 1..Len(StepIds) |-> ComposerStep(i)],
     context |-> WorkflowContext, artifacts |-> <<>>,
     total_cost |-> 0, total_tokens |-> 0]

\* save_workflow_state, lines 133-163: the dictionary yaml.dump writes.
WorkflowDict(wf) ==
    [workflow_metadata |->
         [workflow_id |-> wf.workflow_id, workflow_name |-> wf.workflow_name,
          status |-> wf.status,
          current_step |-> wf.current_step, total_steps |-> wf.total_steps,
          total_cost |-> wf.total_cost, total_tokens |-> wf.total_tokens],
     context |-> wf.context,
     artifacts |-> wf.artifacts,
     steps |-> [i \in 1..Len(wf.steps) |->
                   [step_id |-> wf.steps[i].step_id,
                    agent_type |-> wf.steps[i].agent_type,
                    status |-> wf.steps[i].status,
                    input_data |-> wf.steps[i].input_data,
                    output_data |-> wf.steps[i].output_data,
                    cost |-> wf.steps[i].cost,
                    tokens_used |-> wf.steps[i].tokens_used,
                    error_message |-> wf.steps[i].error_message]]]

\* One state file for every workflow.
StateFileShared(workflow_id) == "cost_opt_1"

\* save_workflow_state, line 130: the state file of a workflow id.
StateFile(workflow_id) == workflow_id

\* The state file after save_workflow_state: written, left as it was when
\* open() raised, truncated when yaml.dump raised.
SavedStateFile(old, wf, outcome) ==
    CASE outcome = "ok" -> [state |-> "yaml", doc |-> <<WorkflowDict(wf)>>]
      [] outcome = "open_failed" -> old
      [] OTHER -> PartialFile

ComposerMayEnd(outcome) == outcome = "ok" \/ composer_faults < scope.composer_faults
ComposerFaultsAfter(outcome) ==
    IF outcome = "ok" THEN composer_faults ELSE composer_faults + 1

\* workflow.steps[step_index]: Python counts a negative index from the end
\* (step_index is 0-based, the sequence 1-based).
SeqIndex(ss, step_index) ==
    IF step_index >= 0 THEN step_index + 1 ELSE Len(ss) + step_index + 1

\* execute_step, lines 244-253: the step and the workflow after the agent
\* returned.
StepExecuted(wf, step_index) ==
    LET i == SeqIndex(wf.steps, step_index)
        agent == wf.steps[i].agent_type
    IN [wf EXCEPT !.steps[i].cost = AgentCost(agent),
                  !.steps[i].tokens_used = AgentTokens(agent),
                  !.steps[i].output_data = AgentOutput(agent),
                  !.steps[i].status = COMPLETED,
                  !.current_step = step_index + 1,
                  !.total_cost = @ + AgentCost(agent),
                  !.total_tokens = @ + AgentTokens(agent)]

\* execute_step, lines 261-263: the except branch.
StepRaised(wf, step_index, msg) ==
    [wf EXCEPT !.steps[SeqIndex(wf.steps, step_index)].status = FAILED,
               !.steps[SeqIndex(wf.steps, step_index)].error_message = msg]

\* What the composer never touches: the checkpoint engines.
engine == <<steps, context, artifacts, recovery_events, checkpoint_files, pc, cur,
            result, runs, locals, dispatch_log, events_at_start, save_view,
            round_trip, save_step, budgets>>

\* create_cost_optimization_workflow(w), once per workflow id.
CreateWorkflow(w) ==
    /\ w \in scope.workflows
    /\ composer_pc.at = "idle"
    /\ current_workflows[w] = <<>>
    /\ current_workflows' = [current_workflows EXCEPT ![w] = <<NewWorkflow(w)>>]
    /\ UNCHANGED <<engine, state_files, composer_pc, composer_result, composer_runs, composer_faults>>

\* execute_workflow(w) for a workflow the composer does not hold: lines 310-313.
ComposerUnknownWorkflow(w) ==
    /\ w \in scope.workflows
    /\ composer_pc.at = "idle"
    /\ composer_runs < scope.composer_runs
    /\ current_workflows[w] = <<>>
    /\ composer_runs' = composer_runs + 1
    /\ composer_result' = "False"
    /\ UNCHANGED <<engine, current_workflows, state_files, composer_pc, composer_faults>>

\* A loop that starts at the first step whatever current_step is.
FirstIndexZero(wf) == 0

\* execute_workflow, line 317: range(workflow.current_step, ...).
FirstIndex(wf) == wf.current_step

\* A loader that rebuilds the steps without their error_message and
\* output_data.
LoadedWorkflowBare(doc) ==
    [workflow_id |-> doc.workflow_metadata.workflow_id,
     status |-> doc.workflow_metadata.status,
     current_step |-> doc.workflow_metadata.current_step,
     total_steps |-> doc.workflow_metadata.total_steps,
     workflow_name |-> doc.workflow_metadata.workflow_name,
     context |-> doc.context,
     artifacts |-> doc.artifacts,
     steps |-> [i \in 1..Len(doc.steps) |->
                   [step_id |-> doc.steps[i].step_id,
                    agent_type |-> doc.steps[i].agent_type,
                    status |-> doc.steps[i].status,
                    input_data |-> doc.steps[i].input_data,
                    output_data |-> NoneStr,
                    cost |-> doc.steps[i].cost,
                    tokens_used |-> doc.steps[i].tokens_used,
                    error_message |-> NoneStr]],
     total_cost |-> doc.workflow_metadata.total_cost,
     total_tokens |-> doc.workflow_metadata.total_tokens]

\* load_workflow_state, lines 186-217: the WorkflowState rebuilt from the
\* dictionary yaml.safe_load returns.
LoadedWorkflow(doc) ==
    [workflow_id |-> doc.workflow_metadata.workflow_id,
     status |-> doc.workflow_metadata.status,
     current_step |-> doc.workflow_metadata.current_step,
     total_steps |-> doc.workflow_metadata.total_steps,
     workflow_name |-> doc.workflow_metadata.workflow_name,
     context |-> doc.context,
     artifacts |-> doc.artifacts,
     steps |-> [i \in 1..Len(doc.steps) |->
                   [step_id |-> doc.steps[i].step_id,
                    agent_type |-> doc.steps[i].agent_type,
                    status |-> doc.steps[i].status,
                    input_data |-> doc.steps[i].input_data,
                    output_data |-> doc.steps[i].output_data,
                    cost |-> doc.steps[i].cost,
                    tokens_used |-> doc.steps[i].tokens_used,
                    error_message |-> doc.steps[i].error_message]],
     total_cost |-> doc.workflow_metadata.total_cost,
     total_tokens |-> doc.workflow_metadata.total_tokens]

\* load_workflow_state(w) between runs: the workflow of the state file
\* replaces the one held; a missing file returns None (line 180) and a
\* truncated one makes line 186 raise, both before line 219.
ComposerLoadWorkflow(w) ==
    /\ w \in scope.workflows
    /\ composer_pc.at = "idle"
    /\ current_workflows' =
           IF state_files[StateFile(w)].state = "yaml"
           THEN [current_workflows EXCEPT ![w] = <<LoadedWorkflow(state_files[StateFile(w)].doc[1])>>]
           ELSE current_workflows
    /\ UNCHANGED <<engine, state_files, composer_pc, composer_result, composer_runs,
                   composer_faults>>

\* execute_workflow(w), lines 315-317: the loop starts at current_step.
ComposerStartWorkflow(w) ==
    /\ w \in scope.workflows
    /\ composer_pc.at = "idle"
    /\ composer_runs < scope.composer_runs
    /\ current_workflows[w] # <<>>
    /\ composer_runs' = composer_runs + 1
    /\ composer_result' = "running"
    /\ current_workflows' = [current_workflows EXCEPT ![w][1].status = RUNNING]
    /\ composer_pc' = [at |-> "loop", w |-> w, i |-> FirstIndex(current_workflows[w][1]),
                       start |-> current_workflows[w][1].current_step]
    /\ UNCHANGED <<engine, state_files, composer_faults>>

\* execute_step, lines 234-236: the step is dispatched.
ComposerBeginStep ==
    LET w == composer_pc.w
        i == composer_pc.i
    IN /\ composer_pc.at = "loop"
       /\ i < Len(current_workflows[w][1].steps)
       /\ current_workflows' =
              [current_workflows EXCEPT
                  ![w][1].steps[SeqIndex(current_workflows[w][1].steps, i)].status = RUNNING]
       /\ composer_pc' = [composer_pc EXCEPT !.at = "exec"]
       /\ UNCHANGED <<engine, state_files, composer_result, composer_runs, composer_faults>>

\* execute_step, lines 238-259: the agent returns and the state is saved.
ComposerStepSucceeds ==
    LET w == composer_pc.w
        wf == StepExecuted(current_workflows[w][1], composer_pc.i)
    IN /\ composer_pc.at = "exec"
       /\ current_workflows' = [current_workflows EXCEPT ![w] = <<wf>>]
       /\ state_files' = [state_files EXCEPT ![StateFile(w)] = SavedStateFile(@, wf, "ok")]
       /\ composer_pc' = [composer_pc EXCEPT !.at = "loop", !.i = @ + 1]
       /\ UNCHANGED <<engine, composer_result, composer_runs, composer_faults>>

\* execute_step, lines 238-265: the agent returns, save_workflow_state raises
\* and the except branch marks the step failed.
ComposerStepFails(outcome) ==
    LET w == composer_pc.w
        done == StepExecuted(current_workflows[w][1], composer_pc.i)
        wf == StepRaised(done, composer_pc.i, WriteError)
    IN /\ composer_pc.at = "exec"
       /\ outcome # "ok"
       /\ ComposerMayEnd(outcome)
       /\ composer_faults' = ComposerFaultsAfter(outcome)
       /\ current_workflows' = [current_workflows EXCEPT ![w] = <<wf>>]
       /\ state_files' = [state_files EXCEPT ![StateFile(w)] = SavedStateFile(@, done, outcome)]
       /\ composer_pc' = [composer_pc EXCEPT !.at = "abort"]
       /\ UNCHANGED <<engine, composer_result, composer_runs>>

\* execute_workflow, lines 320-323: a step failed; the save of line 322 is
\* outside any try, so its exception leaves execute_workflow.
ComposerAbort(outcome) ==
    LET w == composer_pc.w
        wf == [current_workflows[w][1] EXCEPT !.status = FAILED]
    IN /\ composer_pc.at = "abort"
       /\ ComposerMayEnd(outcome)
       /\ composer_faults' = ComposerFaultsAfter(outcome)
       /\ current_workflows' = [current_workflows EXCEPT ![w] = <<wf>>]
       /\ state_files' = [state_files EXCEPT ![StateFile(w)] = SavedStateFile(@, wf, outcome)]
       /\ composer_result' = IF outcome = "ok" THEN "False" ELSE "Exception"
       /\ composer_pc' = ComposerIdle
       /\ UNCHANGED <<engine, composer_runs>>

\* execute_workflow, lines 325-330: every step of the loop succeeded.
ComposerEndWorkflow(outcome) ==
    LET w == composer_pc.w
        wf == [current_workflows[w][1] EXCEPT !.status = COMPLETED]
    IN /\ composer_pc.at = "loop"
       /\ composer_pc.i >= Len(current_workflows[w][1].steps)
       /\ ComposerMayEnd(outcome)
       /\ composer_faults' = ComposerFaultsAfter(outcome)
       /\ current_workflows' = [current_workflows EXCEPT ![w] = <<wf>>]
       /\ state_files' = [state_files EXCEPT ![StateFile(w)] = SavedStateFile(@, wf, outcome)]
       /\ composer_result' = IF outcome = "ok" THEN "True" ELSE "Exception"
       /\ composer_pc' = ComposerIdle
       /\ UNCHANGED <<engine, composer_runs>>

ComposerNext ==
    \/ \E w \in WorkflowIds : CreateWorkflow(w)
    \/ \E w \in WorkflowIds : ComposerUnknownWorkflow(w)
    \/ \E w \in WorkflowIds : ComposerLoadWorkflow(w)
    \/ \E w \in WorkflowIds : ComposerStartWorkflow(w)
    \/ ComposerBeginStep
    \/ ComposerStepSucceeds
    \/ \E outcome \in SaveOutcomes : ComposerStepFails(outcome)
    \/ \E outcome \in SaveOutcomes : ComposerAbort(outcome)
    \/ \E outcome \in SaveOutcomes : ComposerEndWorkflow(outcome)

\* One WorkflowComposer with the cost optimization workflow; writes of the
\* state file can fail.
InitComposer == InitIn(ComposerScope)
SpecComposer == InitComposer /\ [][ComposerNext]_vars

\* The step_index values a caller passes to execute_step: every index of the
\* workflow, counted from either end, and one beyond each end.
StepIndexes == (0 - Len(StepIds) - 1) .. Len(StepIds)

\* The caller calls execute_step(w, step_index) itself.
ComposerCallStep(w, step_index) ==
    /\ w \in scope.workflows
    /\ composer_pc.at = "idle"
    /\ composer_runs < scope.composer_runs
    /\ composer_runs' = composer_runs + 1
    /\ composer_result' = "running"
    /\ composer_pc' = [at |-> "call", w |-> w, i |-> step_index, start |-> 0]
    /\ UNCHANGED <<engine, current_workflows, state_files, composer_faults>>

\* execute_step, lines 225-234: the workflow is not held (return False), the
\* index is len(steps) or more (return False), or it is below -len(steps) and
\* workflow.steps[step_index] raises IndexError outside the try.
ComposerCallRejected ==
    LET w == composer_pc.w
        held == current_workflows[w]
    IN /\ composer_pc.at = "call"
       /\ IF held = <<>> THEN TRUE
          ELSE composer_pc.i \notin (0 - Len(held[1].steps)) .. (Len(held[1].steps) - 1)
       /\ composer_result' =
              IF held # <<>> /\ composer_pc.i < 0 - Len(held[1].steps)
              THEN "IndexError" ELSE "False"
       /\ composer_pc' = ComposerIdle
       /\ UNCHANGED <<engine, current_workflows, state_files, composer_runs, composer_faults>>

\* execute_step, lines 234-259, called by the caller: workflow.steps[step_index]
\* is dispatched, the agent returns, the state is saved, True is returned.
ComposerCallSucceeds ==
    LET w == composer_pc.w
        held == current_workflows[w]
        wf == StepExecuted(held[1], composer_pc.i)
    IN /\ composer_pc.at = "call"
       /\ held # <<>>
       /\ composer_pc.i < Len(held[1].steps)
       /\ composer_pc.i >= 0 - Len(held[1].steps)
       /\ current_workflows' = [current_workflows EXCEPT ![w] = <<wf>>]
       /\ state_files' = [state_files EXCEPT ![StateFile(w)] = SavedStateFile(@, wf, "ok")]
       /\ composer_result' = "True"
       /\ composer_pc' = ComposerIdle
       /\ UNCHANGED <<engine, composer_runs, composer_faults>>

\* execute_step, lines 234-265, called by the caller: save_workflow_state
\* raises, the except branch marks the step failed, False is returned.
ComposerCallFails(outcome) ==
    LET w == composer_pc.w
        held == current_workflows[w]
        done == StepExecuted(held[1], composer_pc.i)
        wf == StepRaised(done, composer_pc.i, WriteError)
    IN /\ composer_pc.at = "call"
       /\ held # <<>>
       /\ composer_pc.i < Len(held[1].steps)
       /\ composer_pc.i >= 0 - Len(held[1].steps)
       /\ outcome # "ok"
       /\ ComposerMayEnd(outcome)
       /\ composer_faults' = ComposerFaultsAfter(outcome)
       /\ current_workflows' = [current_workflows EXCEPT ![w] = <<wf>>]
       /\ state_files' = [state_files EXCEPT ![StateFile(w)] = SavedStateFile(@, done, outcome)]
       /\ composer_result' = "False"
       /\ composer_pc' = ComposerIdle
       /\ UNCHANGED <<engine, composer_runs>>

CallsNext ==
    \/ ComposerNext
    \/ \E w \in WorkflowIds, step_index \in StepIndexes : ComposerCallStep(w, step_index)
    \/ ComposerCallRejected
    \/ ComposerCallSucceeds
    \/ \E outcome \in SaveOutcomes : ComposerCallFails(outcome)

\* One WorkflowComposer with two workflows, whose caller calls
\* execute_workflow and execute_step; writes of the state file can fail.
InitCalls == InitIn(CallsScope)
SpecCalls == InitCalls /\ [][CallsNext]_vars

\* ------------------------------------------------------------ properties
RunEnded(e) == pc[e] = "idle" /\ runs[e] > 0

FirstRunEnded(e) == RunEnded(e) /\ runs[e] = 1

\* Positions of the current run's dispatch log: the failed dispatches, and
\* the dispatches of step n.
FailedDispatches(e) == {i \in 1..Len(dispatch_log[e]) : ~dispatch_log[e][i].ok}
DispatchesOf(e, n) == {i \in 1..Len(dispatch_log[e]) : dispatch_log[e][i].step = n}

\* Scenario 2: a fresh 3-step workflow has run; step 1 succeeded, step 2
\* failed with a validation message, its retry succeeded, nothing else failed.
C1_Scenario(e) ==
    /\ FirstRunEnded(e)
    /\ Len(steps[e]) = 3
    /\ Len(dispatch_log[e]) >= 3
    /\ dispatch_log[e][1] = [step |-> 1, ok |-> TRUE, msg |-> NoneStr]
    /\ dispatch_log[e][2].step = 2
    /\ ~dispatch_log[e][2].ok
    /\ Mentions(dispatch_log[e][2].msg, "VALIDATION_ERROR")
    /\ dispatch_log[e][3] = [step |-> 2, ok |-> TRUE, msg |-> NoneStr]
    /\ FailedDispatches(e) = {2}

\* C1: in a 3-step workflow where step 2 fails once with a validation message
\* and its retry succeeds, execute_workflow returns True, step 2 ends
\* Recovered, steps 1 and 3 end Completed, and recovery_events holds exactly
\* one event: strategy CheckpointRecovery, success true, source_checkpoint 1.
C1_RecoveredOnce ==
    \A e \in Engines :
        C1_Scenario(e) =>
            /\ result[e] = "True"
            /\ steps[e][1].status = COMPLETED
            /\ steps[e][2].status = RECOVERED
            /\ steps[e][3].status = COMPLETED
            /\ Len(recovery_events[e]) = 1
            /\ recovery_events[e][1].strategy = CHECKPOINT_RECOVERY
            /\ recovery_events[e][1].success
            /\ recovery_events[e][1].source_checkpoint = 1

C1_Witness == \E e \in Engines : C1_Scenario(e)

\* A first run has ended in which every dispatch of step n failed, after a
\* checkpoint before n had been found and restored.
C2_Scenario(e, n) ==
    /\ FirstRunEnded(e)
    /\ DispatchesOf(e, n) # {}
    /\ DispatchesOf(e, n) \subseteq FailedDispatches(e)
    /\ \E i \in 1..Len(recovery_events[e]) : recovery_events[e][i].trigger.step = n

\* C2: with max_retries = 3, a step with an earlier checkpoint whose executor
\* fails on every dispatch is dispatched 4 times; the run then aborts with
\* the step's attempt counter at 4, one recovery event per retry (3), and the
\* last event unsuccessful.
C2_FourDispatches ==
    \A e \in Engines : \A n \in 1..MaxSteps :
        C2_Scenario(e, n) =>
            /\ result[e] = "False"
            /\ Cardinality(DispatchesOf(e, n)) = max_retries + 1
            /\ \E i \in 1..Len(steps[e]) :
                   steps[e][i].step_number = n /\ steps[e][i].retry_count = max_retries + 1
            /\ Len(recovery_events[e]) = max_retries
            /\ ~recovery_events[e][Len(recovery_events[e])].success

\* C3: every step's attempt counter is at most max_retries + 1, in every
\* state, however often execute_workflow has been called on the engine.
C3_AttemptBound ==
    \A e \in Engines : \A i \in 1..Len(steps[e]) :
        steps[e][i].retry_count <= max_retries + 1

\* A first run, on a directory nobody has written to, has ended after its very
\* first dispatch, of step 1, failed.
C4_Scenario(e) ==
    /\ FirstRunEnded(e)
    /\ api_calls = 0
    /\ Len(dispatch_log[e]) >= 1
    /\ dispatch_log[e][1].step = 1
    /\ ~dispatch_log[e][1].ok

\* C4: when step 1 fails, so that no checkpoint exists before it,
\* execute_workflow returns a failure result; no checkpoint has been written
\* and recovery_events is empty.
C4_FirstStepFailureReturnsFalse ==
    \A e \in Engines :
        C4_Scenario(e) =>
            /\ result[e] = "False"
            /\ \A n \in 1..MaxSteps : checkpoint_files[n] = AbsentFile
            /\ recovery_events[e] = <<>>

\* C5: right after restore_from_checkpoint applied the checkpoint of index k,
\* every step with index greater than k is Pending.
C5_RestoreNeverAdvances ==
    \A e \in Engines :
        pc[e] = "retry" =>
            \A i \in 1..Len(steps[e]) :
                steps[e][i].step_number > checkpoint[e][1].step_number
                    => steps[e][i].status = PENDING

\* C6: once a step dispatched in this run is Recovered, its status stays
\* Recovered for the rest of the run.
C6_RecoveredIsTerminal ==
    [][\A e \in Engines : \A i \in 1..Len(steps[e]) :
          ( /\ steps[e][i].status = RECOVERED
            /\ DispatchesOf(e, steps[e][i].step_number) # {}
            /\ runs'[e] = runs[e] )
          => steps'[e][i].status = RECOVERED]_vars

\* C7: what load_checkpoint returns to an engine, to recover_from_failure or
\* to a caller, is a checkpoint of that engine's own workflow_id.
C7_Isolation ==
    /\ \A e \in Engines :
           checkpoint[e] # <<>> => checkpoint[e][1].workflow_id = WorkflowIdOf(e)
    /\ (round_trip.stage \in {"load", "loaded"} /\ round_trip.got # <<>>)
           => round_trip.got[1].workflow_id = WorkflowIdOf(round_trip.e)

\* C8: load_checkpoint(n) right after a successful save_checkpoint(n) returns a
\* checkpoint with the workflow_id, step_number, context, artifacts and
\* completed_steps of the engine at save time, whose integrity_hash is the
\* hash of its own workflow_id, context and artifacts.
C8_RoundTrip ==
    round_trip.stage = "loaded" =>
        /\ round_trip.got # <<>>
        /\ LET g == round_trip.got[1]
               sv == round_trip.saved[1]
           IN /\ g.workflow_id = sv.workflow_id
              /\ g.step_number = sv.step_number
              /\ g.context = sv.context
              /\ g.artifacts = sv.artifacts
              /\ g.completed_steps = sv.completed_steps
              /\ g.integrity_hash = HashOf(g.workflow_id, g.context, g.artifacts)

\* A round trip of a state with a str and a bool in context and two artifacts.
C8_Witness ==
    /\ round_trip.stage = "loaded"
    /\ Len(round_trip.saved[1].artifacts) >= 2
    /\ \E p \in round_trip.saved[1].context : p[2].ty = "bool"
    /\ \E p \in round_trip.saved[1].context : p[2].ty = "str"
    /\ round_trip.saved[1].completed_steps # <<>>

\* C9: the completed_steps of a checkpoint holds no step that was Failed when
\* save_checkpoint ran.
C9_NoFailedInCheckpoint ==
    Range(save_view.completed_steps) \cap save_view.failed = {}

\* A checkpoint was written while a step was Failed and another Completed.
C9_Witness ==
    /\ save_view.failed # {}
    /\ save_view.completed_steps # <<>>

\* C10: a run goes on to another step only when every failed dispatch so far
\* has its RecoveryEvent, and a run that ended with a failure left without an
\* event returned the failure result.
C10_NoFailureDropped ==
    \A e \in Engines :
        LET failures == Cardinality(FailedDispatches(e))
            events == Len(recovery_events[e]) - events_at_start[e]
        IN /\ pc[e] \in {"loop", "exec"} => failures = events
           /\ (RunEnded(e) /\ failures > events) => result[e] = "False"

\* Positions of the current run's dispatch log that close a failure-then-retry
\* cycle: a dispatch of the step whose dispatch just before it failed.
RetryDispatches(e) ==
    {i \in 2..Len(dispatch_log[e]) :
        /\ dispatch_log[e][i].step = dispatch_log[e][i - 1].step
        /\ ~dispatch_log[e][i - 1].ok}

\* The event of the current run that the cycle closed at position i appended.
EventOfCycle(e, i) ==
    recovery_events[e][events_at_start[e]
                       + Cardinality({j \in RetryDispatches(e) : j <= i})]

\* C11: in every state, the events the current run has appended are one per
\* failure-then-retry cycle whose re-dispatch has ended, each naming the step
\* of its cycle with success equal to the re-dispatch's outcome; a failure
\* that found no checkpoint, and a cycle whose re-dispatch is still under
\* way, has no event.
C11_OneEventPerCycle ==
    \A e \in Engines :
        /\ Len(recovery_events[e]) - events_at_start[e]
               = Cardinality(RetryDispatches(e))
        /\ \A i \in RetryDispatches(e) :
               /\ EventOfCycle(e, i).success = dispatch_log[e][i].ok
               /\ EventOfCycle(e, i).trigger.step = dispatch_log[e][i].step

\* A run with a cycle that succeeded and a cycle that failed.
C11_Witness ==
    \E e \in Engines :
        /\ RunEnded(e)
        /\ \E i \in RetryDispatches(e) : dispatch_log[e][i].ok
        /\ \E i \in RetryDispatches(e) : ~dispatch_log[e][i].ok

\* The fields of a RecoveryEvent (lines 59-69, without the wall-clock ones).
EventFields(ev) ==
    <<ev.event_id, ev.trigger, ev.strategy, ev.source_checkpoint, ev.success,
      ev.artifacts_recovered, ev.compensating_actions>>

\* C12: an event that is in recovery_events keeps every one of its fields in
\* every later step of the engine: later dispatches and later recoveries
\* change none, and artifacts_recovered stays the list it was.
C12_EventsImmutable ==
    [][\A e \in Engines : \A i \in 1..Len(recovery_events[e]) :
          /\ Len(recovery_events'[e]) >= Len(recovery_events[e])
          /\ EventFields(recovery_events'[e][i]) = EventFields(recovery_events[e][i])]_vars

\* The class of an error message: the first pattern it contains, in the order
\* validation, timeout, dependency; unknown when it contains none.
ErrorClass(msg) ==
    IF Mentions(msg, "VALIDATION_ERROR") THEN "validation"
    ELSE IF Mentions(msg, "TIMEOUT") THEN "timeout"
    ELSE IF Mentions(msg, "DEPENDENCY") THEN "dependency"
    ELSE "unknown"

\* The strategy and the actions planned for a class of error.
PlannedStrategy(class) ==
    CASE class = "timeout" -> RETRY_WITH_FALLBACK
      [] class = "dependency" -> COMPENSATING_ACTION
      [] OTHER -> CHECKPOINT_RECOVERY

PlannedActions(class) ==
    CASE class = "validation" ->
             <<"input_format_validation", "specification_format_correction">>
      [] class = "timeout" -> <<"switch_to_fallback_agent", "reduce_complexity">>
      [] class = "dependency" -> <<"regenerate_dependencies", "validate_prerequisites">>
      [] OTHER -> <<>>

\* The events an engine holds: the recorded ones and the one under way.
EventsOf(e) == Range(recovery_events[e]) \cup Range(recovery_event[e])

\* C13: the strategy of every RecoveryEvent is the one planned for the class
\* of the error that triggered it: CheckpointRecovery for validation and
\* unknown, RetryWithFallback for timeout, CompensatingAction for dependency.
C13_StrategyByClass ==
    \A e \in Engines : \A ev \in EventsOf(e) :
        ev.strategy = PlannedStrategy(ErrorClass(ev.trigger.msg))

\* C14: every failure that reaches _apply_compensating_actions gets a plan:
\* the two actions of the first class its message matches, in the order
\* validation, timeout, dependency, and no action when it matches none.
C14_ClassificationTotal ==
    \A e \in Engines : \A ev \in EventsOf(e) :
        ev.compensating_actions = PlannedActions(ErrorClass(ev.trigger.msg))

\* A recorded event whose message names both the validation and the timeout
\* pattern.
C14_Witness ==
    \E e \in Engines : \E i \in 1..Len(recovery_events[e]) :
        /\ Mentions(recovery_events[e][i].trigger.msg, "TIMEOUT")
        /\ Mentions(recovery_events[e][i].trigger.msg, "VALIDATION_ERROR")

\* C15: when save_checkpoint fails after the executor of a step succeeded,
\* the step is a success with its output (Completed, or Recovered when the
\* dispatch was a retry), its checkpoint_saved flag is false, execute_step
\* reports success and execute_workflow moves on to the next step.
C15_SaveFailureNotFatal ==
    [][\A e \in Engines :
          ( /\ pc[e] \in {"exec", "retry_exec"}
            /\ steps'[e] # steps[e]
            /\ io_faults' > io_faults )
          => LET s == steps'[e][cur[e]]
             IN /\ s.status = IF pc[e] = "exec" THEN COMPLETED ELSE RECOVERED
                /\ s.output = StepOutput(s.step_number)
                /\ ~s.checkpoint_saved
                /\ dispatch_log'[e] = Append(dispatch_log[e],
                       [step |-> s.step_number, ok |-> TRUE, msg |-> NoneStr])
                /\ pc'[e] = "loop"
                /\ cur'[e] = cur[e] + 1
                /\ result'[e] = result[e]]_vars

\* The checkpoint write of step 1 failed and step 2 has been dispatched.
C15_Witness ==
    \E e \in Engines :
        /\ Len(steps[e]) >= 2
        /\ io_faults > 0
        /\ steps[e][1].status = COMPLETED
        /\ steps[e][1].output = StepOutput(1)
        /\ ~steps[e][1].checkpoint_saved
        /\ steps[e][2].status = IN_PROGRESS

\* C16: the checkpoint recover_from_failure restores is never the one of a
\* step whose checkpoint write failed (checkpoint_saved false), whatever
\* record lies at that step's key.
C16_UnsavedNeverRestored ==
    \A e \in Engines :
        pc[e] \in {"restore", "retry", "retry_exec"} =>
            \A i \in 1..Len(steps[e]) :
                steps[e][i].step_number = last_checkpoint_step[e]
                    => steps[e][i].checkpoint_saved

\* C17: while execute_workflow runs, the checkpoint file of index n changes
\* only in the step of execute_step that ends a successful dispatch of step
\* n: the step was in progress, is recorded as Completed in the record
\* written, and the next step has not been dispatched; a dispatch that fails
\* leaves every checkpoint file as it was.
C17_CheckpointAfterStep ==
    [][/\ \A n \in 1..MaxSteps :
             (checkpoint_files'[n] # checkpoint_files[n] /\ api_calls' = api_calls)
             => \E e \in Engines :
                    /\ pc[e] \in {"exec", "retry_exec"}
                    /\ steps[e][cur[e]].step_number = n
                    /\ steps[e][cur[e]].status = IN_PROGRESS
                    /\ steps'[e][cur[e]].status \in {COMPLETED, RECOVERED}
                    /\ dispatch_log'[e] = Append(dispatch_log[e],
                           [step |-> n, ok |-> TRUE, msg |-> NoneStr])
                    /\ checkpoint_files'[n].state = "json"
                           => /\ checkpoint_files'[n].doc[1].step_number = n
                              /\ n \in Range(checkpoint_files'[n].doc[1].completed_steps)
                    /\ pc'[e] = "loop"
                    /\ \A i \in 1..Len(steps[e]) : steps'[e][i].status # IN_PROGRESS
       /\ \A e \in Engines :
             ( /\ Len(dispatch_log'[e]) > Len(dispatch_log[e])
               /\ ~dispatch_log'[e][Len(dispatch_log'[e])].ok )
             => checkpoint_files' = checkpoint_files]_vars

\* A run in which a dispatch failed and another wrote its checkpoint.
C17_Witness ==
    \E e \in Engines :
        /\ api_calls = 0
        /\ FailedDispatches(e) # {}
        /\ \E i \in 1..Len(dispatch_log[e]) :
               /\ dispatch_log[e][i].ok
               /\ checkpoint_files[dispatch_log[e][i].step].state = "json"

\* The checkpoint engine dispatches the step at cur[e] (a first dispatch or a
\* retry): the step before it has been dispatched with success in this run,
\* is Completed or Recovered at a first dispatch, and no other step is in
\* progress.
EngineSequential ==
    \A e \in Engines :
        ( /\ pc[e] \in {"loop", "retry"}
          /\ pc'[e] \in {"exec", "retry_exec"} )
        => /\ cur[e] > 1 =>
                  /\ \E i \in DispatchesOf(e, steps[e][cur[e] - 1].step_number) :
                         dispatch_log[e][i].ok
                  /\ pc[e] = "loop"
                         => steps[e][cur[e] - 1].status \in {COMPLETED, RECOVERED}
           /\ Cardinality({i \in 1..Len(steps'[e]) :
                              steps'[e][i].status = IN_PROGRESS}) = 1

\* WorkflowComposer.execute_workflow dispatches the step of index i (0-based):
\* the step of index i - 1 is COMPLETED and no other step is running.
ComposerSequential ==
    ( /\ composer_pc.at = "loop"
      /\ composer_pc'.at = "exec" )
    => LET wf == current_workflows[composer_pc.w][1]
           after == current_workflows'[composer_pc.w][1]
       IN /\ composer_pc.i > 0 => wf.steps[composer_pc.i].status = COMPLETED
          /\ Cardinality({i \in 1..Len(after.steps) :
                             after.steps[i].status = RUNNING}) = 1

\* C18: the steps of a workflow run one after the other, in both engines: a
\* step is dispatched only when the step before it has reached Completed (or
\* Recovered), and never while another step is in progress.
C18_Sequential == [][EngineSequential /\ ComposerSequential]_vars

\* C19: a load_checkpoint call that returns a checkpoint reports an integrity
\* mismatch exactly when the digest stored in that checkpoint differs from
\* the digest of the checkpoint's own workflow_id, context and artifacts.
C19_MismatchFromCheckpointOnly ==
    (round_trip.stage \in {"load", "loaded"} /\ round_trip.got # <<>>)
        => LET g == round_trip.got[1]
           IN round_trip.warned
                  <=> g.integrity_hash # HashOf(g.workflow_id, g.context, g.artifacts)

\* Key n has held a complete record: the checkpoint write of a step n
\* succeeded.  (Where no write fails, records are never removed.)
HasBeenSaved(n) ==
    \E e \in Engines : \E i \in 1..Len(steps[e]) :
        steps[e][i].step_number = n /\ steps[e][i].checkpoint_saved

\* This step is a load_checkpoint(n) of engine e, by a caller or by
\* recover_from_failure, and it returned a record.
CallerLoads(e, n) ==
    /\ pc[e] = "idle"
    /\ api_calls' = api_calls + 1
    /\ round_trip'.stage \in {"load", "loaded"}
    /\ round_trip'.e = e
    /\ round_trip'.n = n

RecoveryLoads(e, n) ==
    /\ pc[e] = "recover"
    /\ last_checkpoint_step[e] = n
    /\ n > 0
    /\ (pc'[e] = "restore" \/ last_checkpoint_step'[e] = n - 1)

\* C20: a load_checkpoint of a key that has held a complete record returns a
\* complete record, the previous one or the new one, also when it runs
\* between the open() and the json.dump of a save_checkpoint of that key: it
\* never finds the file empty or half-written.
C20_AtomicWrites ==
    [][\A e \in Engines : \A n \in 1..MaxSteps :
          /\ (CallerLoads(e, n) /\ HasBeenSaved(n)) => round_trip'.got # <<>>
          /\ (RecoveryLoads(e, n) /\ HasBeenSaved(n)) => checkpoint'[e] # <<>>]_vars

\* C21: when save_checkpoint(n) of an engine succeeds on a key that already
\* holds a record of the same workflow id, the file holds the new record and
\* nothing else, and the load_checkpoint(n) that follows returns the content
\* of the second write.
C21_LastWriteWins ==
    ( /\ round_trip.stage = "loaded"
      /\ round_trip.prior # <<>>
      /\ round_trip.prior[1].workflow_id = WorkflowIdOf(round_trip.e) )
    => LET sv == round_trip.saved[1]
           file == checkpoint_files[CheckpointPath(sv.workflow_id, round_trip.n)]
       IN /\ file.state = "json"
          /\ Len(file.doc) = 1
          /\ JsonLoad(file.doc[1]) = round_trip.got[1]
          /\ round_trip.got # <<>>
          /\ round_trip.got[1].workflow_id = sv.workflow_id
          /\ round_trip.got[1].step_number = sv.step_number
          /\ round_trip.got[1].context = sv.context
          /\ round_trip.got[1].artifacts = sv.artifacts
          /\ round_trip.got[1].completed_steps = sv.completed_steps

\* The second write at a key changed the record, and it was loaded.
C21_Witness ==
    /\ round_trip.stage = "loaded"
    /\ round_trip.prior # <<>>
    /\ round_trip.prior[1].workflow_id = WorkflowIdOf(round_trip.e)
    /\ round_trip.prior[1].artifacts # round_trip.saved[1].artifacts
    /\ round_trip.prior[1].step_number = round_trip.saved[1].step_number

\* C22: when WorkflowComposer.execute_workflow ends because the dispatch of
\* the step of index i failed, it returns False, the workflow is FAILED, step
\* i is FAILED with its error message, current_step is i, every later step is
\* still pending, and the state file holds exactly this state.
C22_TerminalFailure ==
    [][( /\ composer_pc.at = "abort"
         /\ composer_pc'.at = "idle" )
       => LET w == composer_pc.w
              i == composer_pc.i
              wf == current_workflows'[w][1]
          IN /\ composer_result' = "False"
             /\ wf.status = FAILED
             /\ wf.steps[i + 1].status = FAILED
             /\ wf.steps[i + 1].error_message # NoneStr
             /\ wf.current_step = i
             /\ \A j \in (i + 2)..Len(wf.steps) : wf.steps[j].status = PENDING
             /\ state_files'[w] = [state |-> "yaml", doc |-> <<WorkflowDict(wf)>>]]_vars

\* C23: WorkflowComposer.execute_workflow is one ordered pass from the
\* workflow's current step: its loop starts at current_step, every dispatch is
\* of the step current_step points at, which is not before the start of the
\* pass and is not a COMPLETED step, and a dispatch changes no step but the
\* dispatched one; this holds for workflows resumed after a failure or after
\* load_workflow_state.
C23_SinglePass ==
    [][/\ ( /\ composer_pc.at = "idle"
            /\ composer_pc'.at = "loop" )
          => composer_pc'.i = current_workflows[composer_pc'.w][1].current_step
       /\ ( /\ composer_pc.at = "loop"
            /\ composer_pc'.at = "exec" )
          => LET wf == current_workflows[composer_pc.w][1]
                 after == current_workflows'[composer_pc.w][1]
                 i == composer_pc.i
             IN /\ i >= composer_pc.start
                /\ i = wf.current_step
                /\ wf.steps[i + 1].status # COMPLETED
                /\ \A j \in 1..Len(wf.steps) : j # i + 1 => after.steps[j] = wf.steps[j]
                /\ \A j \in 1..i : wf.steps[j].status \in {COMPLETED, FAILED}]_vars

\* A step is dispatched by a run that resumed a workflow with completed steps.
C23_Witness ==
    /\ composer_pc.at = "exec"
    /\ composer_pc.start > 0
    /\ composer_runs >= 2
    /\ \E j \in 1..composer_pc.start :
           current_workflows[composer_pc.w][1].steps[j].status = COMPLETED

\* Scenario 1: a fresh 3-step workflow has run on a directory nobody else
\* wrote to, and each step succeeded on its first dispatch.
C24_Scenario(e) ==
    /\ FirstRunEnded(e)
    /\ api_calls = 0
    /\ Len(steps[e]) = 3
    /\ dispatch_log[e] = [i \in 1..3 |-> [step |-> i, ok |-> TRUE, msg |-> NoneStr]]

\* C24: in a 3-step workflow whose steps all succeed on the first dispatch,
\* execute_workflow returns True, every step is Completed with its checkpoint
\* saved, the checkpoint directory holds exactly the records of step 1, 2 and
\* 3, each of its own index, and recovery_events is empty.
C24_AllSucceed ==
    \A e \in Engines :
        C24_Scenario(e) =>
            /\ result[e] = "True"
            /\ \A i \in 1..3 : /\ steps[e][i].status = COMPLETED
                               /\ steps[e][i].checkpoint_saved
                               /\ steps[e][i].retry_count = 0
            /\ \A n \in 1..MaxSteps :
                   IF n <= 3
                   THEN /\ checkpoint_files[n].state = "json"
                        /\ checkpoint_files[n].doc[1].step_number = n
                        /\ checkpoint_files[n].doc[1].workflow_id = WorkflowIdOf(e)
                        /\ checkpoint_files[n].doc[1].completed_steps = [i \in 1..n |-> i]
                   ELSE checkpoint_files[n] = AbsentFile
            /\ recovery_events[e] = <<>>

C24_Witness == \E e \in Engines : C24_Scenario(e)

AllowedTransitions ==
    { <<PENDING, IN_PROGRESS>>, <<IN_PROGRESS, COMPLETED>>, <<IN_PROGRESS, FAILED>>,
      <<FAILED, IN_PROGRESS>>, <<IN_PROGRESS, RECOVERED>> }

\* C26: every change of a step's status is Pending->InProgress,
\* InProgress->Completed, InProgress->Failed, Failed->InProgress or
\* InProgress->Recovered.
C26_TransitionsOnly ==
    [][\A e \in Engines : \A i \in 1..Len(steps[e]) :
          steps'[e][i].status # steps[e][i].status
              => <<steps[e][i].status, steps'[e][i].status>> \in AllowedTransitions]_vars

\* The indices below k whose checkpoint file load_checkpoint can read.
Loadable(e, k) ==
    {n \in 1..(k - 1) :
        LoadCheckpoint(checkpoint_files[CheckpointPath(WorkflowIdOf(e), n)]) # <<>>}

Greatest(S) == CHOOSE n \in S : \A m \in S : m <= n

\* C27: when step k has failed, recovery restores the checkpoint of the
\* greatest index below k that can be loaded and names that index in the
\* event's source_checkpoint; when no index below k can be loaded, recovery
\* ends with the no-valid-checkpoint failure and context, artifacts, steps and
\* recovery_events stay as they were.
C27_LatestCheckpointBefore ==
    [][\A e \in Engines :
          LET k == steps[e][cur[e]].step_number
          IN /\ ( /\ pc[e] = "restore"
                  /\ pc'[e] = "retry" )
                => /\ Loadable(e, k) # {}
                   /\ recovery_event'[e][1].source_checkpoint = Greatest(Loadable(e, k))
                   /\ checkpoint[e] = LoadCheckpoint(checkpoint_files[
                          CheckpointPath(WorkflowIdOf(e), Greatest(Loadable(e, k)))])
                   /\ context'[e] = checkpoint[e][1].context
                   /\ artifacts'[e] = checkpoint[e][1].artifacts
             /\ ( /\ pc[e] = "recover"
                  /\ pc'[e] = "idle" )
                => /\ Loadable(e, k) = {}
                   /\ result'[e] = "False"
                   /\ context'[e] = context[e]
                   /\ artifacts'[e] = artifacts[e]
                   /\ steps'[e] = steps[e]
                   /\ recovery_events'[e] = recovery_events[e]]_vars

\* C28: between operations (no execute_workflow call under way), every step
\* of a checkpoint engine that is Completed or Recovered has an output and
\* every Failed step has an error message, and every COMPLETED step of a
\* WorkflowComposer workflow has output_data and every FAILED one an error
\* message.
C28_OutputAndErrorDefined ==
    /\ \A e \in Engines :
           pc[e] = "idle" =>
               \A i \in 1..Len(steps[e]) :
                   /\ steps[e][i].status \in {COMPLETED, RECOVERED}
                          => steps[e][i].output # NoneStr
                   /\ steps[e][i].status = FAILED
                          => steps[e][i].error_message # NoneStr
    /\ \A w \in WorkflowIds :
           (composer_pc.at = "idle" /\ current_workflows[w] # <<>>) =>
               \A i \in 1..Len(current_workflows[w][1].steps) :
                   LET s == current_workflows[w][1].steps[i]
                   IN /\ s.status = COMPLETED => s.output_data # NoneStr
                      /\ s.status = FAILED => s.error_message # NoneStr

\* C29: between operations, a step of a checkpoint engine that is Pending,
\* Completed or Recovered has no error message, and neither has a pending or
\* COMPLETED step of a WorkflowComposer workflow.
C29_ErrorOnlyWhileFailed ==
    /\ \A e \in Engines :
           pc[e] = "idle" =>
               \A i \in 1..Len(steps[e]) :
                   steps[e][i].status \in {PENDING, COMPLETED, RECOVERED}
                       => steps[e][i].error_message = NoneStr
    /\ \A w \in WorkflowIds :
           (composer_pc.at = "idle" /\ current_workflows[w] # <<>>) =>
               \A i \in 1..Len(current_workflows[w][1].steps) :
                   LET s == current_workflows[w][1].steps[i]
                   IN s.status \in {PENDING, COMPLETED} => s.error_message = NoneStr

\* C30: in the first run of an engine, whenever no dispatch is under way,
\* the attempt counter (retry_count) of every step equals the number of
\* dispatches of that step so far, successful ones included; it is 0 before
\* the first run.
C30_AttemptCountsDispatches ==
    \A e \in Engines :
        (runs[e] <= 1 /\ pc[e] \in {"idle", "loop"}) =>
            \A i \in 1..Len(steps[e]) :
                steps[e][i].retry_count
                    = Cardinality(DispatchesOf(e, steps[e][i].step_number))

NoDuplicates(s) == \A i, j \in 1..Len(s) : s[i] = s[j] => i = j

IsPrefix(s, t) == Len(s) <= Len(t) /\ \A i \in 1..Len(s) : s[i] = t[i]

\* C31: the artifacts list of an engine never holds an artifact twice, and
\* every step of the engine other than the restore of a checkpoint only
\* appends to it.
C31_ArtifactsUnique ==
    [][\A e \in Engines :
          /\ NoDuplicates(artifacts'[e])
          /\ pc[e] # "restore" => IsPrefix(artifacts[e], artifacts'[e])]_vars

\* What recovery must not touch in a step.
StepIdentity(s) == <<s.step_number, s.name, s.agent, s.input_data>>

LiveState(e) == <<context[e], artifacts[e], steps[e], recovery_events[e]>>

\* C33: a save_checkpoint or load_checkpoint call made by a caller, whether
\* it succeeds or fails, and a load_checkpoint made by recover_from_failure's
\* scan, leave context, artifacts, steps and recovery_events of every engine
\* as they were.
C33_StoreKeepsLiveState ==
    [][\A e \in Engines :
          ( \/ api_calls' = api_calls + 1
            \/ pc[e] = "recover" /\ pc'[e] \in {"recover", "restore"} )
          => LiveState(e)' = LiveState(e)]_vars

\* After its run an engine with artifacts made a save_checkpoint call that
\* failed.
C33_Witness ==
    \E e \in Engines :
        /\ pc[e] = "idle"
        /\ result[e] = "True"
        /\ api_calls = 1
        /\ io_faults = 1
        /\ Len(artifacts[e]) >= 2
        /\ \A i \in 1..Len(steps[e]) : steps[e][i].checkpoint_saved

\* C34: a checkpoint file that parses is returned by the load of
\* recover_from_failure whether or not its integrity_hash equals the hash of
\* the engine's state, the recovery restores context and artifacts from it
\* and goes on to retry the failed step.
C34_MismatchIsAdvisory ==
    [][\A e \in Engines :
          LET file == checkpoint_files[CheckpointPath(WorkflowIdOf(e),
                                                      last_checkpoint_step[e])]
          IN /\ (pc[e] = "recover" /\ last_checkpoint_step[e] > 0
                    /\ file.state = "json"
                    /\ <<pc[e], last_checkpoint_step[e]>>' # <<pc[e], last_checkpoint_step[e]>>)
                 => /\ pc'[e] = "restore"
                    /\ checkpoint'[e] = <<JsonLoad(file.doc[1])>>
             /\ (pc[e] = "restore" /\ pc'[e] # pc[e])
                 => /\ pc'[e] = "retry"
                    /\ context'[e] = checkpoint[e][1].context
                    /\ artifacts'[e] = checkpoint[e][1].artifacts
                    /\ steps'[e][cur[e]].status = PENDING]_vars

\* The retry of step 2 is under way after a restore from a checkpoint whose
\* integrity_hash is the hash of a state without artifacts, loaded when
\* step 1 had appended its artifact.
C34_Witness ==
    \E e \in Engines :
        /\ pc[e] = "retry_exec"
        /\ cur[e] = 2
        /\ checkpoint[e] # <<>>
        /\ checkpoint[e][1].integrity_hash.artifacts = <<>>
        /\ \E k \in 1..Len(dispatch_log[e]) :
               dispatch_log[e][k].step = 1 /\ dispatch_log[e][k].ok

\* C35: when execute_workflow has returned True, every step is Completed or
\* Recovered and the artifact of every step is in artifacts, also after a
\* recovery that followed a failed checkpoint write.
C35_SuccessMeansAllDone ==
    \A e \in Engines :
        (pc[e] = "idle" /\ result[e] = "True")
            => \A i \in 1..Len(steps[e]) :
                   /\ steps[e][i].status \in {COMPLETED, RECOVERED}
                   /\ StepArtifact(steps[e][i].step_number) # NoneStr
                          => \E k \in 1..Len(artifacts[e]) :
                                 artifacts[e][k] = StepArtifact(steps[e][i].step_number)

\* C36: in a run of execute_workflow every step is dispatched at most twice,
\* the run makes at most 2n dispatches for n steps, and when it has ended
\* execute_workflow has returned success or failure.
C36_BoundedRun ==
    \A e \in Engines :
        /\ \A i \in 1..Len(steps[e]) :
               Cardinality(DispatchesOf(e, steps[e][i].step_number)) <= 2
        /\ Len(dispatch_log[e]) <= 2 * Len(steps[e])
        /\ RunEnded(e) => result[e] \in {"True", "False"}

\* The workflows a composer holds while no call is under way.
HeldWorkflows ==
    IF composer_pc.at = "idle"
    THEN {current_workflows[w][1] : w \in {v \in WorkflowIds : current_workflows[v] # <<>>}}
    ELSE {}

\* C37: between calls of execute_workflow and execute_step, current_step of a
\* workflow lies in 0..len(steps), every step below current_step is
\* COMPLETED, no step above it is, and the workflow is COMPLETED only with
\* current_step = len(steps).
C37_ProgressCursor ==
    \A wf \in HeldWorkflows :
        /\ wf.current_step \in 0..Len(wf.steps)
        /\ \A i \in 1..Len(wf.steps) :
               /\ i - 1 < wf.current_step => wf.steps[i].status = COMPLETED
               /\ i - 1 > wf.current_step => wf.steps[i].status # COMPLETED
        /\ wf.status = COMPLETED => wf.current_step = Len(wf.steps)

RECURSIVE SumTokens(_)
SumTokens(ss) ==
    IF ss = <<>> THEN 0
    ELSE (IF ss[1].status = COMPLETED THEN ss[1].tokens_used ELSE 0) + SumTokens(Tail(ss))

\* C38: between calls of execute_workflow and execute_step, total_tokens of
\* a workflow is the sum of tokens_used over its COMPLETED steps.
C38_TokensOfCompleted ==
    \A wf \in HeldWorkflows : wf.total_tokens = SumTokens(wf.steps)

\* C39: whenever the state file of a workflow id changes, the workflow being
\* executed has that id, and when it was written in full,
\* load_workflow_state rebuilds from it the workflow that was saved: status,
\* current_step, total_steps, context, artifacts, totals and every field of
\* every step in order; the state file of no other id changes.
C39_StateRoundTrip ==
    [][\A w \in WorkflowIds :
          state_files'[StateFile(w)] # state_files[StateFile(w)]
              => /\ composer_pc.w = w
                 /\ state_files'[StateFile(w)].state = "yaml"
                        => LoadedWorkflow(state_files'[StateFile(w)].doc[1])
                               = current_workflows'[w][1]]_vars

\* A workflow was saved by a first call, a second call on it failed with the
\* file left as it was, and load_workflow_state has put back the saved
\* workflow.
C39_Witness ==
    \E w \in WorkflowIds :
        /\ composer_pc.at = "idle"
        /\ composer_runs = 2
        /\ composer_faults = 1
        /\ \A v \in WorkflowIds \ {w} : current_workflows[v] = <<>>
        /\ current_workflows[w] # <<>>
        /\ state_files[StateFile(w)].state = "yaml"
        /\ current_workflows[w][1] = LoadedWorkflow(state_files[StateFile(w)].doc[1])
        /\ \E i \in 1..Len(current_workflows[w][1].steps) :
               current_workflows[w][1].steps[i].status = COMPLETED
        /\ \A i \in 1..Len(current_workflows[w][1].steps) :
               current_workflows[w][1].steps[i].status # FAILED

\* C40: execute_step called for a workflow the composer does not hold, or
\* with a step_index outside 0..len(steps)-1, returns False, changes no
\* workflow and writes no state file.
C40_BadCallRejected ==
    [][( /\ composer_pc.at = "call"
         /\ composer_pc' # composer_pc
         /\ IF current_workflows[composer_pc.w] = <<>> THEN TRUE
            ELSE composer_pc.i \notin
                     0 .. (Len(current_workflows[composer_pc.w][1].steps) - 1) )
       => /\ composer_result' = "False"
          /\ current_workflows' = current_workflows
          /\ state_files' = state_files]_vars

====
